---------------------------- MODULE Spec2Model ----------------------------
(***************************************************************************)
(* A model of the ZX Spectrum machine core of kosarev/zx (src/zx.h):       *)
(* the CPU bus adapter, the contention model, the beam renderer, the      *)
(* event loop, the port-write journal and the address marks.              *)
(*                                                                         *)
(* The Z80 decoder is an external collaborator.  An instruction step is    *)
(* modelled as the m1 fetch that opens it followed by any sequence of the  *)
(* bus callbacks the decoder may invoke, with inputs from small sets.      *)
(***************************************************************************)
EXTENDS Integers, Sequences, FiniteSets, TLC

\* ------------------------------------------------------------------------
\* Program constants (src/zx.h).

\* memory_image::page
rom0 == 0
ram5 == 1
ram2 == 2
ram0 == 3
rom1 == 4
ram1 == 5
ram3 == 6
ram4 == 7
ram6 == 8
ram7 == 9

page_size == 16384

ticks_per_active_int == 32

screen_width == 256
screen_height == 192
border_width == 48
top_border_height == 48
bottom_border_height == 40
frame_width == border_width + screen_width + border_width
frame_height == top_border_height + screen_height + bottom_border_height
pixels_per_frame_chunk == 8
chunks_per_frame_line == frame_width \div pixels_per_frame_chunk

max_ticks_per_frame == 70908
ticks_per_shortest_out_instr == 11
\* The capacity of the journal with the quotient rounded down.
max_num_port_writes_floor == max_ticks_per_frame \div ticks_per_shortest_out_instr

max_num_port_writes ==
    (max_ticks_per_frame + ticks_per_shortest_out_instr - 1)
        \div ticks_per_shortest_out_instr

\* memory_marks
breakpoint_mark == 1
visited_instr_mark == 128

Models == {"spectrum_48", "spectrum_128"}

\* events_mask, kept as the set of the names of the bits that are set.
no_events == {}

get_ticks_per_frame(mdl) == IF mdl = "spectrum_48" THEN 69888 ELSE 70908

\* get_ticks_per_line() with a 128K line that is not a whole number of
\* eight-pixel chunks long.
get_ticks_per_line_226(mdl) == IF mdl = "spectrum_48" THEN 224 ELSE 226

get_ticks_per_line(mdl) == IF mdl = "spectrum_48" THEN 224 ELSE 228

\* get_cont_base() without the tick added for the sampling of ~INT.
get_cont_base_unadjusted(mdl) == IF mdl = "spectrum_48" THEN 14335 ELSE 14361

get_cont_base(mdl) == IF mdl = "spectrum_48" THEN 14335 + 1 ELSE 14361 + 1

\* ------------------------------------------------------------------------
\* Memory image.  The image is kept as the byte every cell had when the
\* machine was handed to the emulation (fill) and the cells written since.

\* get_ram_page() taking n for the number of the page in the image.
get_ram_page_in_image(n) == n

get_ram_page(n) == <<ram0, ram1, ram2, ram3, ram4, ram5, ram6, ram7>>[n + 1]

get_rom_page(n) == <<rom0, rom1>>[n + 1]

get_offset(addr, rom, ram) ==
    IF addr < 16384 THEN rom * page_size + addr
    ELSE IF addr < 49152 THEN addr
    ELSE ram * page_size + (addr % page_size)

image_read(img, addr, rom, ram) ==
    LET off == get_offset(addr, rom, ram)
    IN  IF off \in DOMAIN img.cells THEN img.cells[off] ELSE img.fill

image_write(img, addr, n, rom, ram) ==
    LET off == get_offset(addr, rom, ram)
    IN  [img EXCEPT !.cells =
            [o \in DOMAIN img.cells \cup {off} |->
                IF o = off THEN n ELSE img.cells[o]]]

\* ------------------------------------------------------------------------
\* Beam renderer.

make16(hi, lo) == hi * 256 + lo

\* Bit b of x.
Bit(x, b) == (x \div (2 ^ b)) % 2

get_pixel_pattern_offset(frame_line, pixel_in_line) ==
    LET line == frame_line - 64
    IN  2048 * (line \div 64)
          + 32 * ((line % 64) \div 8)
          + 256 * ((line % 64) % 8)
          + (pixel_in_line - border_width) \div 8

get_colour_attrs_offset(frame_line, pixel_in_line) ==
    32 * ((frame_line - 64) \div 8) + (pixel_in_line - border_width) \div 8

\* A line of the chunk buffer no tick has written yet: its content is
\* indeterminate (screen_chunks has no initialiser).
NoLine == <<>>

\* A chunk is kept as its four bytes, most significant first; -1 stands for
\* a byte that has never been assigned.
FreshLine == [c \in 0 .. chunks_per_frame_line - 1 |-> <<-1, -1, -1, -1>>]

\* The assignment with a mask of the whole chunk: the two pixels of the tick
\* are stored and the six others cleared.
put_pixels_whole_chunk(chunks, screen_line, pixel_in_line, value) ==
    LET chunk_index == pixel_in_line \div pixels_per_frame_chunk
        pixel_in_chunk == pixel_in_line % pixels_per_frame_chunk
        row == IF chunks[screen_line] = NoLine THEN FreshLine
               ELSE chunks[screen_line]
    IN  [chunks EXCEPT ![screen_line] =
            [row EXCEPT ![chunk_index] =
                [<<0, 0, 0, 0>> EXCEPT ![pixel_in_chunk \div 2 + 1] = value]]]

\* *chunk = (*chunk & ~pixels_mask) | pixels_value, with
\* pixels_mask = 0xff000000 >> (pixel_in_chunk * 4): the two pixels of a tick
\* are byte pixel_in_chunk / 2 of the chunk.
put_pixels(chunks, screen_line, pixel_in_line, value) ==
    LET chunk_index == pixel_in_line \div pixels_per_frame_chunk
        pixel_in_chunk == pixel_in_line % pixels_per_frame_chunk
        row == IF chunks[screen_line] = NoLine THEN FreshLine
               ELSE chunks[screen_line]
    IN  [chunks EXCEPT ![screen_line] =
            [row EXCEPT ![chunk_index][pixel_in_chunk \div 2 + 1] = value]]

\* The loop iteration with the shadow latches loaded at every tick of the
\* screen area, so that the pixels are painted from the latches themselves.
render_tick_step_no_shadow(b, e) ==
    LET ticks_per_line == get_ticks_per_line(e.model)
        screen_page == IF e.shadow_screen THEN ram7 ELSE ram5
        frame_tick == b.render_tick + border_width \div 2 - 8 \div 2
        frame_line == frame_tick \div ticks_per_line
        pixel_in_line == (frame_tick % ticks_per_line) * 2
        is_screen_latching_area ==
            /\ frame_line >= 64
            /\ frame_line < 64 + screen_height
            /\ pixel_in_line >= border_width - 8
            /\ pixel_in_line < border_width + screen_width - 8
        latch ==
            /\ is_screen_latching_area
            /\ (b.render_tick - frame_line * ticks_per_line) % 8 = 0
        pattern_addr ==
            49152 + get_pixel_pattern_offset(frame_line, pixel_in_line + 8)
        attr_addr ==
            49152 + 6144 + get_colour_attrs_offset(frame_line, pixel_in_line + 8)
        b1 == IF latch
              THEN [b EXCEPT
                      !.latched_pixel_pattern =
                          make16(image_read(e.bytes, pattern_addr, rom0, screen_page),
                                 image_read(e.bytes, pattern_addr + 1, rom0, screen_page)),
                      !.latched_colour_attrs =
                          make16(image_read(e.bytes, attr_addr, rom0, screen_page),
                                 image_read(e.bytes, attr_addr + 1, rom0, screen_page))]
              ELSE b
        top_hidden_lines == 64 - top_border_height
        is_screen_area ==
            /\ frame_line >= 64
            /\ frame_line < 64 + screen_height
            /\ pixel_in_line >= border_width
            /\ pixel_in_line < border_width + screen_width
        is_visible_area ==
            /\ frame_line >= top_hidden_lines
            /\ frame_line < 64 + screen_height + bottom_border_height
            /\ pixel_in_line < frame_width
        screen_line == frame_line - top_hidden_lines
    IN  IF is_screen_area
        THEN LET pixel_in_cycle == (pixel_in_line - border_width) % 16
                 b2 == IF pixel_in_cycle >= 0
                       THEN [b1 EXCEPT
                               !.latched_pixel_pattern2 = b1.latched_pixel_pattern,
                               !.latched_colour_attrs2 = b1.latched_colour_attrs]
                       ELSE b1
                 attr == b2.latched_colour_attrs2
                            \div (2 ^ (((15 - pixel_in_cycle) \div 8) * 8))
                 brightness == Bit(attr, 6) * 8
                 ink_colour == (attr % 8) + brightness
                 paper_colour == ((attr \div 8) % 8) + brightness
                 flashed == Bit(attr, 7) = 1 /\ e.flash_mask # 0
                 \* pattern ^= flash_mask, flash_mask being 0 or 0xffff
                 pattern == IF flashed THEN 65535 - b2.latched_pixel_pattern2
                            ELSE b2.latched_pixel_pattern2
                 p0 == IF Bit(pattern, 15 - pixel_in_cycle) = 1
                       THEN ink_colour ELSE paper_colour
                 p1 == IF Bit(pattern, 14 - pixel_in_cycle) = 1
                       THEN ink_colour ELSE paper_colour
             IN  [b2 EXCEPT
                    !.screen_chunks = put_pixels(b2.screen_chunks, screen_line,
                                                 pixel_in_line, p0 * 16 + p1),
                    !.render_tick = b2.render_tick + 1]
        ELSE IF is_visible_area
        THEN LET lbc == IF b1.render_tick % 4 = 0 THEN e.border_colour
                        ELSE b1.latched_border_colour
             IN  [b1 EXCEPT
                    !.latched_border_colour = lbc,
                    !.screen_chunks = put_pixels(b1.screen_chunks, screen_line,
                                                 pixel_in_line, 17 * lbc),
                    !.render_tick = b1.render_tick + 1]
        ELSE [b1 EXCEPT !.render_tick = b1.render_tick + 1]

\* One iteration of the loop of render_screen_to_tick.  b holds the beam
\* state, e what the loop reads and does not change.
render_tick_step(b, e) ==
    LET ticks_per_line == get_ticks_per_line(e.model)
        screen_page == IF e.shadow_screen THEN ram7 ELSE ram5
        frame_tick == b.render_tick + border_width \div 2 - 8 \div 2
        frame_line == frame_tick \div ticks_per_line
        pixel_in_line == (frame_tick % ticks_per_line) * 2
        is_screen_latching_area ==
            /\ frame_line >= 64
            /\ frame_line < 64 + screen_height
            /\ pixel_in_line >= border_width - 8
            /\ pixel_in_line < border_width + screen_width - 8
        latch ==
            /\ is_screen_latching_area
            /\ (b.render_tick - frame_line * ticks_per_line) % 8 = 0
        pattern_addr ==
            49152 + get_pixel_pattern_offset(frame_line, pixel_in_line + 8)
        attr_addr ==
            49152 + 6144 + get_colour_attrs_offset(frame_line, pixel_in_line + 8)
        b1 == IF latch
              THEN [b EXCEPT
                      !.latched_pixel_pattern =
                          make16(image_read(e.bytes, pattern_addr, rom0, screen_page),
                                 image_read(e.bytes, pattern_addr + 1, rom0, screen_page)),
                      !.latched_colour_attrs =
                          make16(image_read(e.bytes, attr_addr, rom0, screen_page),
                                 image_read(e.bytes, attr_addr + 1, rom0, screen_page))]
              ELSE b
        top_hidden_lines == 64 - top_border_height
        is_screen_area ==
            /\ frame_line >= 64
            /\ frame_line < 64 + screen_height
            /\ pixel_in_line >= border_width
            /\ pixel_in_line < border_width + screen_width
        is_visible_area ==
            /\ frame_line >= top_hidden_lines
            /\ frame_line < 64 + screen_height + bottom_border_height
            /\ pixel_in_line < frame_width
        screen_line == frame_line - top_hidden_lines
    IN  IF is_screen_area
        THEN LET pixel_in_cycle == (pixel_in_line - border_width) % 16
                 b2 == IF pixel_in_cycle = 0
                       THEN [b1 EXCEPT
                               !.latched_pixel_pattern2 = b1.latched_pixel_pattern,
                               !.latched_colour_attrs2 = b1.latched_colour_attrs]
                       ELSE b1
                 attr == b2.latched_colour_attrs2
                            \div (2 ^ (((15 - pixel_in_cycle) \div 8) * 8))
                 brightness == Bit(attr, 6) * 8
                 ink_colour == (attr % 8) + brightness
                 paper_colour == ((attr \div 8) % 8) + brightness
                 flashed == Bit(attr, 7) = 1 /\ e.flash_mask # 0
                 \* pattern ^= flash_mask, flash_mask being 0 or 0xffff
                 pattern == IF flashed THEN 65535 - b2.latched_pixel_pattern2
                            ELSE b2.latched_pixel_pattern2
                 p0 == IF Bit(pattern, 15 - pixel_in_cycle) = 1
                       THEN ink_colour ELSE paper_colour
                 p1 == IF Bit(pattern, 14 - pixel_in_cycle) = 1
                       THEN ink_colour ELSE paper_colour
             IN  [b2 EXCEPT
                    !.screen_chunks = put_pixels(b2.screen_chunks, screen_line,
                                                 pixel_in_line, p0 * 16 + p1),
                    !.render_tick = b2.render_tick + 1]
        ELSE IF is_visible_area
        THEN LET lbc == IF b1.render_tick % 4 = 0 THEN e.border_colour
                        ELSE b1.latched_border_colour
             IN  [b1 EXCEPT
                    !.latched_border_colour = lbc,
                    !.screen_chunks = put_pixels(b1.screen_chunks, screen_line,
                                                 pixel_in_line, 17 * lbc),
                    !.render_tick = b1.render_tick + 1]
        ELSE [b1 EXCEPT !.render_tick = b1.render_tick + 1]

\* n iterations of the loop, n >= 1.  The iterations are composed in halves
\* to keep the evaluation shallow; the result is that of n steps in a row.
RECURSIVE render_ticks(_, _, _)
render_ticks(b, e, n) ==
    IF n = 1 THEN render_tick_step(b, e)
    ELSE LET h == n \div 2
             mid == render_ticks(b, e, h)
         IN  IF mid.render_tick = b.render_tick + h
             THEN render_ticks(mid, e, n - h)
             ELSE mid

\* ------------------------------------------------------------------------
\* The machine.  Every field of spectrum<D> the model needs is a variable of
\* the same name; pc is the decoder's program counter and proc its other
\* registers, flip-flops and modes.

VARIABLES
    model, bytes, events, ticks_since_int, ticks_to_stop, fetches_to_stop,
    addr_bus_value, border_colour, int_suppressed,
    rom_page, ram_page, ignore_7ffd_port_writes, shadow_screen,
    frame_counter, flash_mask, render_tick, latched_border_colour,
    latched_pixel_pattern, latched_colour_attrs,
    latched_pixel_pattern2, latched_colour_attrs2, screen_chunks,
    num_port_writes, port_writes, memory_marks, pc,
    int_after_ei_allowed, trace_enabled, proc

\* Where the caller of the machine stands, and what the model remembers of
\* the run so far to state the properties:
\*   ctl      "idle" (outside run()), "loop" (at the loop test of run()),
\*            "int" (inside on_handle_active_int), "step" (inside on_step)
\*   cycles   callbacks made so far by the current on_step or interrupt
\*   budget   callbacks and host calls the behaviour may still make
\*   ret      the mask the last run() returned (NoRet before the first)
\*   hist     the memory writes and port 0xFE writes of the current frame,
\*            each with the tick it started at and the value it replaced
\*   watch    bookkeeping of the two deadlines, the last stop(), the last
\*            frame start, the jumps of the current run(), the tick at
\*            which the current pass of the loop began, the number of
\*            run() calls that have returned end_of_frame, and the output
\*            cycles made so far, each as the address, the value, the
\*            frame_counter and the tick at the call, the address and
\*            the value of the last on_write() that was followed by an
\*            on_read() of the same address, with the bytes read before and
\*            after it, the address of the last direct write with the
\*            image as it was before, the kind, the address and the tick
\*            of the call of the last timed memory access, the tick a
\*            sequence of loads began at with the ticks of its cycles and
\*            the delays of its accesses summed up, the end ticks of the
\*            direct calls of render_screen_to_tick(), the packed state
\*            the host last installed with the one retrieved right after,
\*            whether the host has set an on_input callback, the last
\*            input cycle as its address, its tick, the callback's answer
\*            and the byte returned to the decoder, the arguments of the
\*            host's last mark_addrs call, the pixel the host last looked at
\*            in the image of get_frame_pixels, the machine as it was
\*            when the program began (the start of the reference
\*            renderer), the number of stop() calls the host has made
\*            between run() calls, the width in bits of fast_u16 in the
\*            build at hand (0 where it does not matter), and the border
\*            colour and the paging as they were at the last frame start
VARIABLES ctl, cycles, budget, ret, hist, watch

machine_vars ==
    <<model, bytes, events, ticks_since_int, ticks_to_stop, fetches_to_stop,
      addr_bus_value, border_colour, int_suppressed,
      rom_page, ram_page, ignore_7ffd_port_writes, shadow_screen,
      frame_counter, flash_mask, render_tick, latched_border_colour,
      latched_pixel_pattern, latched_colour_attrs,
      latched_pixel_pattern2, latched_colour_attrs2, screen_chunks,
      num_port_writes, port_writes, memory_marks, pc,
      int_after_ei_allowed, trace_enabled, proc>>

vars == <<machine_vars, ctl, cycles, budget, ret, hist, watch>>

\* The machine and the bookkeeping as one record, the form the handlers
\* below take and return.
M ==
    [model |-> model, bytes |-> bytes, events |-> events,
     ticks_since_int |-> ticks_since_int, ticks_to_stop |-> ticks_to_stop,
     fetches_to_stop |-> fetches_to_stop, addr_bus_value |-> addr_bus_value,
     border_colour |-> border_colour, int_suppressed |-> int_suppressed,
     rom_page |-> rom_page, ram_page |-> ram_page,
     ignore_7ffd_port_writes |-> ignore_7ffd_port_writes,
     shadow_screen |-> shadow_screen, frame_counter |-> frame_counter,
     flash_mask |-> flash_mask, render_tick |-> render_tick,
     latched_border_colour |-> latched_border_colour,
     latched_pixel_pattern |-> latched_pixel_pattern,
     latched_colour_attrs |-> latched_colour_attrs,
     latched_pixel_pattern2 |-> latched_pixel_pattern2,
     latched_colour_attrs2 |-> latched_colour_attrs2,
     screen_chunks |-> screen_chunks, num_port_writes |-> num_port_writes,
     port_writes |-> port_writes, memory_marks |-> memory_marks, pc |-> pc,
     int_after_ei_allowed |-> int_after_ei_allowed,
     trace_enabled |-> trace_enabled, proc |-> proc,
     hist |-> hist, watch |-> watch]

SetM(m) ==
    /\ model' = m.model
    /\ bytes' = m.bytes
    /\ events' = m.events
    /\ ticks_since_int' = m.ticks_since_int
    /\ ticks_to_stop' = m.ticks_to_stop
    /\ fetches_to_stop' = m.fetches_to_stop
    /\ addr_bus_value' = m.addr_bus_value
    /\ border_colour' = m.border_colour
    /\ int_suppressed' = m.int_suppressed
    /\ rom_page' = m.rom_page
    /\ ram_page' = m.ram_page
    /\ ignore_7ffd_port_writes' = m.ignore_7ffd_port_writes
    /\ shadow_screen' = m.shadow_screen
    /\ frame_counter' = m.frame_counter
    /\ flash_mask' = m.flash_mask
    /\ render_tick' = m.render_tick
    /\ latched_border_colour' = m.latched_border_colour
    /\ latched_pixel_pattern' = m.latched_pixel_pattern
    /\ latched_colour_attrs' = m.latched_colour_attrs
    /\ latched_pixel_pattern2' = m.latched_pixel_pattern2
    /\ latched_colour_attrs2' = m.latched_colour_attrs2
    /\ screen_chunks' = m.screen_chunks
    /\ num_port_writes' = m.num_port_writes
    /\ port_writes' = m.port_writes
    /\ memory_marks' = m.memory_marks
    /\ pc' = m.pc
    /\ int_after_ei_allowed' = m.int_after_ei_allowed
    /\ trace_enabled' = m.trace_enabled
    /\ proc' = m.proc
    /\ hist' = m.hist
    /\ watch' = m.watch

\* ------------------------------------------------------------------------
\* Handlers of spectrum<D>, as functions from machine to machine.

stop(m) == [m EXCEPT !.events = @ \cup {"machine_stopped"},
                     !.watch.stopped = TRUE]

\* on_tick with the deadline test ticks_to_stop >= t.
on_tick_ge(m, t) ==
    IF m.ticks_to_stop # 0
    THEN IF m.ticks_to_stop >= t
         THEN [m EXCEPT !.ticks_since_int = @ + t,
                        !.watch.tts_elapsed = @ + t,
                        !.ticks_to_stop = @ - t]
         ELSE [m EXCEPT !.ticks_since_int = @ + t,
                        !.watch.tts_elapsed = @ + t,
                        !.ticks_to_stop = 0,
                        !.events = @ \cup {"ticks_limit_hit"}]
    ELSE [m EXCEPT !.ticks_since_int = @ + t,
                   !.watch.tts_elapsed = @ + t]

\* watch.tts_elapsed counts the ticks since ticks_to_stop was last set.
on_tick(m, t) ==
    IF m.ticks_to_stop # 0
    THEN IF m.ticks_to_stop > t
         THEN [m EXCEPT !.ticks_since_int = @ + t,
                        !.watch.tts_elapsed = @ + t,
                        !.ticks_to_stop = @ - t]
         ELSE [m EXCEPT !.ticks_since_int = @ + t,
                        !.watch.tts_elapsed = @ + t,
                        !.ticks_to_stop = 0,
                        !.events = @ \cup {"ticks_limit_hit"}]
    ELSE [m EXCEPT !.ticks_since_int = @ + t,
                   !.watch.tts_elapsed = @ + t]

on_read(m, addr) == image_read(m.bytes, addr, m.rom_page, m.ram_page)

\* on_write() without the test of the address.
on_write_any(m, addr, n) ==
    [m EXCEPT !.bytes = image_write(@, addr, n, m.rom_page, m.ram_page)]

on_write(m, addr, n) ==
    IF addr >= 16384
    THEN [m EXCEPT !.bytes = image_write(@, addr, n, m.rom_page, m.ram_page)]
    ELSE m

\* The delay with 6 - ticks_since_new_ula_cycle taken modulo 8 at the last
\* tick of the ULA cycle.
contention_delay_mod8(mdl, t) ==
    LET cont_base == get_cont_base(mdl)
        ticks_per_line == get_ticks_per_line(mdl)
        ticks_since_new_line == (t - cont_base) % ticks_per_line
        ticks_since_new_ula_cycle == ticks_since_new_line % 8
    IN  IF t < cont_base THEN -1
        ELSE IF t >= cont_base + screen_height * ticks_per_line THEN -1
        ELSE IF ticks_since_new_line >= screen_width \div 2 THEN -1
        ELSE (6 - ticks_since_new_ula_cycle) % 8

\* The delay handle_contention() adds at tick t.
contention_delay(mdl, t) ==
    LET cont_base == get_cont_base(mdl)
        ticks_per_line == get_ticks_per_line(mdl)
        ticks_since_new_line == (t - cont_base) % ticks_per_line
        ticks_since_new_ula_cycle == ticks_since_new_line % 8
    IN  IF t < cont_base THEN -1
        ELSE IF t >= cont_base + screen_height * ticks_per_line THEN -1
        ELSE IF ticks_since_new_line >= screen_width \div 2 THEN -1
        ELSE IF ticks_since_new_ula_cycle = 7 THEN 0
        ELSE 6 - ticks_since_new_ula_cycle

\* -1 above is an early return: on_tick is not called at all.
handle_contention(m) ==
    IF contention_delay(m.model, m.ticks_since_int) < 0 THEN m
    ELSE on_tick(m, contention_delay(m.model, m.ticks_since_int))

handle_memory_contention(m, addr) ==
    IF addr >= 16384 /\ addr < 32768 THEN handle_contention(m) ELSE m

\* render_screen_to_tick() with the loop test at the end of the body.
render_screen_to_tick_do_while(m, end_tick) ==
    IF m.render_tick < end_tick
    THEN render_ticks(m, m, end_tick - m.render_tick)
    ELSE render_ticks(m, m, 1)

\* while(render_tick < end_tick) { ... ++render_tick; }
render_screen_to_tick(m, end_tick) ==
    IF m.render_tick < end_tick
    THEN render_ticks(m, m, end_tick - m.render_tick)
    ELSE m

render_screen(m) == render_screen_to_tick(m, get_ticks_per_frame(m.model))

\* z80_cpu<D>::on_fetch_cycle, on_read_cycle and on_write_cycle: the bus
\* transaction itself.  The fetch reads at PC, takes 4 ticks and moves PC on;
\* a read or a write takes 3 ticks.
base_on_fetch_cycle(m) ==
    [on_tick(m, 4) EXCEPT !.pc = (m.pc + 1) % 65536]

base_on_read_cycle(m, addr) == on_tick(m, 3)

base_on_write_cycle(m, addr, n) == on_tick(on_write(m, addr, n), 3)

\* on_fetch_cycle that makes the transaction of a read cycle at PC.
on_fetch_cycle_as_read(m) ==
    [base_on_read_cycle(handle_memory_contention(m, m.pc), m.pc)
        EXCEPT !.pc = (m.pc + 1) % 65536]

on_fetch_cycle(m) ==
    base_on_fetch_cycle(handle_memory_contention(m, m.pc))

\* count_m1_fetch with the event latched one fetch early.
count_m1_fetch_early(m) ==
    IF m.fetches_to_stop # 0
    THEN IF m.fetches_to_stop - 1 <= 1
         THEN [m EXCEPT !.fetches_to_stop = @ - 1,
                        !.watch.m1_count = @ + 1,
                        !.events = @ \cup {"fetches_limit_hit"}]
         ELSE [m EXCEPT !.fetches_to_stop = @ - 1,
                        !.watch.m1_count = @ + 1]
    ELSE [m EXCEPT !.watch.m1_count = @ + 1]

\* if(fetches_to_stop && --fetches_to_stop == 0) events |= fetches_limit_hit;
count_m1_fetch(m) ==
    IF m.fetches_to_stop # 0
    THEN IF m.fetches_to_stop - 1 = 0
         THEN [m EXCEPT !.fetches_to_stop = 0,
                        !.watch.m1_count = @ + 1,
                        !.events = @ \cup {"fetches_limit_hit"}]
         ELSE [m EXCEPT !.fetches_to_stop = @ - 1,
                        !.watch.m1_count = @ + 1]
    ELSE [m EXCEPT !.watch.m1_count = @ + 1]

\* base::on_m1_fetch_cycle() is the fetch cycle of the derived class.
on_m1_fetch_cycle(m) == on_fetch_cycle(count_m1_fetch(m))

\* on_read_cycle with the contention handled after the transaction.
on_read_cycle_delay_after(m, addr) ==
    handle_memory_contention(base_on_read_cycle(m, addr), addr)

on_read_cycle(m, addr) ==
    base_on_read_cycle(handle_memory_contention(m, addr), addr)

\* What the model remembers of a write cycle: the tick it started at, the
\* image offset it went to and the byte it replaced.
note_write(m, addr, n) ==
    IF addr >= 16384
    THEN [m EXCEPT !.hist = Append(@,
            [op |-> "write", tick |-> m.ticks_since_int, addr |-> addr,
             off |-> get_offset(addr, m.rom_page, m.ram_page),
             old |-> on_read(m, addr), new |-> n])]
    ELSE m

\* on_write_cycle that writes the byte before it moves the beam.
on_write_cycle_write_first(m, addr, n) ==
    on_tick(
        handle_memory_contention(
            render_screen_to_tick(on_write(note_write(m, addr, n), addr, n),
                                  m.ticks_since_int + 1),
            addr),
        3)

\* on_write_cycle that moves the beam to the tick the cycle began at, not
\* past it.
on_write_cycle_render_late(m, addr, n) ==
    base_on_write_cycle(
        handle_memory_contention(
            render_screen_to_tick(note_write(m, addr, n), m.ticks_since_int),
            addr),
        addr, n)

on_write_cycle(m, addr, n) ==
    base_on_write_cycle(
        handle_memory_contention(
            render_screen_to_tick(note_write(m, addr, n), m.ticks_since_int + 1),
            addr),
        addr, n)

handle_contention_tick(m) ==
    on_tick(handle_memory_contention(m, m.addr_bus_value), 1)

on_read_cycle_extra_1t(m) == handle_contention_tick(m)

on_read_cycle_extra_2t(m) ==
    handle_contention_tick(handle_contention_tick(m))

on_write_cycle_extra_2t(m) ==
    handle_contention_tick(handle_contention_tick(m))

\* handle_port_contention() choosing by bit 0 of the address alone.
handle_port_contention_by_bit0(m, addr) ==
    IF addr % 2 = 0
    THEN on_tick(handle_contention(on_tick(m, 1)), 3)
    ELSE on_tick(m, 4)

handle_port_contention(m, addr) ==
    IF addr < 16384 \/ addr >= 32768
    THEN IF addr % 2 = 0
         THEN on_tick(handle_contention(on_tick(m, 1)), 3)
         ELSE on_tick(m, 4)
    ELSE IF addr % 2 = 0
         THEN on_tick(handle_contention(on_tick(handle_contention(m), 1)), 3)
         ELSE on_tick(handle_contention(
                  on_tick(handle_contention(
                      on_tick(handle_contention(
                          on_tick(handle_contention(m), 1)), 1)), 1)), 1)

\* The host's on_input: it returns a byte, or it refuses and stops the
\* machine (machine_emulator::on_input); the default returns 0xbf.
on_input(m, addr, refused) == IF refused THEN stop(m) ELSE m

on_input_cycle(m, addr, refused) ==
    on_input(handle_port_contention(m, addr), addr, refused)

\* The bitwise or of two mark bytes.
RECURSIVE marks_or(_, _)
marks_or(a, b) ==
    IF a = 0 THEN b
    ELSE IF b = 0 THEN a
    ELSE (IF a % 2 = 1 \/ b % 2 = 1 THEN 1 ELSE 0)
            + 2 * marks_or(a \div 2, b \div 2)

\* The bitwise and of two mark bytes.
RECURSIVE marks_and(_, _)
marks_and(a, b) ==
    IF a = 0 \/ b = 0 THEN 0
    ELSE (IF a % 2 = 1 /\ b % 2 = 1 THEN 1 ELSE 0)
            + 2 * marks_and(a \div 2, b \div 2)

mask16(n) == n % 65536

\* memory_marks[addr]; the table is kept as its non-zero entries.
marks_at(mm, addr) == IF addr \in DOMAIN mm THEN mm[addr] ELSE 0

is_marked_addr(m, addr, marks) ==
    marks_and(marks_at(m.memory_marks, mask16(addr)), marks) # 0

\* is_breakpoint_addr that takes any mark for a breakpoint.
is_breakpoint_addr_any(m, addr) == is_marked_addr(m, addr, 255)

is_breakpoint_addr(m, addr) == is_marked_addr(m, addr, breakpoint_mark)

\* mark_addr that stores the marks given in place of the marks kept.
mark_addr_assign(m, addr, marks) ==
    LET a == mask16(addr)
    IN  IF marks = 0 /\ a \notin DOMAIN m.memory_marks THEN m
        ELSE IF a \in DOMAIN m.memory_marks
        THEN [m EXCEPT !.memory_marks[a] = marks]
        ELSE [m EXCEPT !.memory_marks = (a :> marks) @@ @]

mark_addr(m, addr, marks) ==
    LET a == mask16(addr)
        v == marks_or(marks_at(m.memory_marks, a), marks)
    IN  IF v = 0 THEN m
        ELSE IF a \in DOMAIN m.memory_marks
        THEN [m EXCEPT !.memory_marks[a] = v]
        ELSE [m EXCEPT !.memory_marks = (a :> v) @@ @]

\* for(i = 0; i != size; ++i) mark_addr(addr + i, marks);
RECURSIVE mark_addrs(_, _, _, _)
mark_addrs(m, addr, size, marks) ==
    IF size = 0 THEN m
    ELSE mark_addr(mark_addrs(m, addr, size - 1, marks),
                   addr + (size - 1), marks)

\* watch.jumps collects the addresses on_set_pc was called with.
on_set_pc(m, new_pc) ==
    IF is_breakpoint_addr(m, new_pc)
    THEN [m EXCEPT !.events = @ \cup {"breakpoint_hit"}, !.pc = new_pc,
                   !.watch.jumps = @ \cup {new_pc}]
    ELSE [m EXCEPT !.pc = new_pc, !.watch.jumps = @ \cup {new_pc}]

\* The border part of on_output_cycle, with the colour set before the beam
\* is moved.
output_border_colour_first(m, addr, n) ==
    IF addr % 256 = 254
    THEN [render_screen_to_tick([m EXCEPT !.border_colour = n % 8],
                                m.ticks_since_int + 1) EXCEPT
            !.hist = Append(@, [op |-> "border", tick |-> m.ticks_since_int,
                                old |-> m.border_colour, new |-> n % 8])]
    ELSE m

\* The border part of on_output_cycle.
output_border(m, addr, n) ==
    IF addr % 256 = 254
    THEN [render_screen_to_tick(m, m.ticks_since_int + 1) EXCEPT
            !.border_colour = n % 8,
            !.hist = Append(@, [op |-> "border", tick |-> m.ticks_since_int,
                                old |-> m.border_colour, new |-> n % 8])]
    ELSE m

\* addr & 0x8002
addr_and_8002(addr) == (addr \div 32768) * 32768 + ((addr \div 2) % 2) * 2

\* The port 0x7ffd part of on_output_cycle without the test of the lock.
output_7ffd_unlocked(m, addr, n) ==
    IF /\ m.model = "spectrum_128"
       /\ addr_and_8002(addr) = 0
    THEN [m EXCEPT
            !.ram_page = get_ram_page(n % 8),
            !.rom_page = get_rom_page((n \div 16) % 2),
            !.ignore_7ffd_port_writes = ((n \div 32) % 2 = 1),
            !.shadow_screen = ((n \div 8) % 2 = 1)]
    ELSE m

\* The port 0x7ffd part of on_output_cycle taking the lock from bit 4 of the
\* value.
output_7ffd_lock_bit4(m, addr, n) ==
    IF /\ m.model = "spectrum_128"
       /\ addr_and_8002(addr) = 0
       /\ ~m.ignore_7ffd_port_writes
    THEN [m EXCEPT
            !.ram_page = get_ram_page(n % 8),
            !.rom_page = get_rom_page((n \div 16) % 2),
            !.ignore_7ffd_port_writes = ((n \div 16) % 2 = 1),
            !.shadow_screen = ((n \div 8) % 2 = 1)]
    ELSE m

\* The port 0x7ffd part of on_output_cycle.
output_7ffd(m, addr, n) ==
    IF /\ m.model = "spectrum_128"
       /\ addr_and_8002(addr) = 0
       /\ ~m.ignore_7ffd_port_writes
    THEN [m EXCEPT
            !.ram_page = get_ram_page(n % 8),
            !.rom_page = get_rom_page((n \div 16) % 2),
            !.ignore_7ffd_port_writes = ((n \div 32) % 2 = 1),
            !.shadow_screen = ((n \div 8) % 2 = 1)]
    ELSE m

\* The journal part of on_output_cycle that records the low three bits of
\* the value.
output_journal_low_bits(m, addr, n, t) ==
    IF m.num_port_writes < max_num_port_writes
    THEN [m EXCEPT
            !.port_writes =
                IF m.num_port_writes < Len(@)
                THEN [@ EXCEPT ![m.num_port_writes + 1] = <<addr, n % 8, t>>]
                ELSE Append(@, <<addr, n % 8, t>>),
            !.num_port_writes = @ + 1]
    ELSE m

\* The journal part of on_output_cycle that stops the machine when the
\* journal is full.
output_journal_full_stops(m, addr, n, t) ==
    IF m.num_port_writes < max_num_port_writes
    THEN [m EXCEPT
            !.port_writes =
                IF m.num_port_writes < Len(@)
                THEN [@ EXCEPT ![m.num_port_writes + 1] = <<addr, n, t>>]
                ELSE Append(@, <<addr, n, t>>),
            !.num_port_writes = @ + 1]
    ELSE [m EXCEPT !.events = @ \cup {"machine_stopped"}]

\* The journal part of on_output_cycle; t is the tick at the entry of the
\* cycle.  An entry is the triple the code packs into 64 bits.
output_journal(m, addr, n, t) ==
    IF m.num_port_writes < max_num_port_writes
    THEN [m EXCEPT
            !.port_writes =
                IF m.num_port_writes < Len(@)
                THEN [@ EXCEPT ![m.num_port_writes + 1] = <<addr, n, t>>]
                ELSE Append(@, <<addr, n, t>>),
            !.num_port_writes = @ + 1]
    ELSE m

\* on_output_cycle that journals the write after the port contention.
on_output_cycle_journal_last(m, addr, n) ==
    LET c == handle_port_contention(
                 output_7ffd(output_border(m, addr, n), addr, n), addr)
    IN  output_journal(c, addr, n, c.ticks_since_int)

on_output_cycle(m, addr, n) ==
    handle_port_contention(
        output_journal(
            output_7ffd(output_border(m, addr, n), addr, n),
            addr, n, m.ticks_since_int),
        addr)

on_set_addr_bus(m, addr) == [m EXCEPT !.addr_bus_value = addr]

on_3t_exec_cycle(m) ==
    handle_contention_tick(handle_contention_tick(handle_contention_tick(m)))

on_4t_exec_cycle(m) == handle_contention_tick(on_3t_exec_cycle(m))

on_5t_exec_cycle(m) == handle_contention_tick(on_4t_exec_cycle(m))

\* start_new_frame that toggles the flash mask at every frame.
start_new_frame_flash_each(m) ==
    [m EXCEPT
        !.ticks_since_int = @ % get_ticks_per_frame(m.model),
        !.render_tick = 0,
        !.frame_counter = @ + 1,
        !.flash_mask = 65535 - @,
        !.num_port_writes = 0,
        !.hist = <<>>,
        !.watch.new_frame = TRUE,
        !.watch.old_ticks = m.ticks_since_int]

\* start_new_frame that leaves the beam where it was.
start_new_frame_stale_beam(m) ==
    [m EXCEPT
        !.ticks_since_int = @ % get_ticks_per_frame(m.model),
        !.frame_counter = @ + 1,
        !.flash_mask = IF (m.frame_counter + 1) % 16 = 0 THEN 65535 - @ ELSE @,
        !.num_port_writes = 0,
        !.hist = <<>>,
        !.watch.new_frame = TRUE,
        !.watch.old_ticks = m.ticks_since_int]

\* start_new_frame that sets the latches of the beam to 0.
start_new_frame_reset_latches(m) ==
    [m EXCEPT
        !.ticks_since_int = @ % get_ticks_per_frame(m.model),
        !.render_tick = 0,
        !.frame_counter = @ + 1,
        !.flash_mask = IF (m.frame_counter + 1) % 16 = 0 THEN 65535 - @ ELSE @,
        !.num_port_writes = 0,
        !.latched_border_colour = 0,
        !.latched_pixel_pattern = 0,
        !.latched_colour_attrs = 0,
        !.latched_pixel_pattern2 = 0,
        !.latched_colour_attrs2 = 0,
        !.hist = <<>>,
        !.watch.new_frame = TRUE,
        !.watch.old_ticks = m.ticks_since_int]

\* start_new_frame that keeps the port-write journal.
start_new_frame_keep_journal(m) ==
    [m EXCEPT
        !.ticks_since_int = @ % get_ticks_per_frame(m.model),
        !.render_tick = 0,
        !.frame_counter = @ + 1,
        !.flash_mask = IF (m.frame_counter + 1) % 16 = 0 THEN 65535 - @ ELSE @,
        !.hist = <<>>,
        !.watch.new_frame = TRUE,
        !.watch.old_ticks = m.ticks_since_int]

start_new_frame(m) ==
    [m EXCEPT
        !.ticks_since_int = @ % get_ticks_per_frame(m.model),
        !.render_tick = 0,
        !.frame_counter = @ + 1,
        !.flash_mask = IF (m.frame_counter + 1) % 16 = 0 THEN 65535 - @ ELSE @,
        !.num_port_writes = 0,
        !.hist = <<>>,
        !.watch.new_frame = TRUE,
        !.watch.old_ticks = m.ticks_since_int]

\* run() without the reset of the events.
run_enter_keep_events(m) ==
    [(IF m.ticks_since_int >= get_ticks_per_frame(m.model)
      THEN start_new_frame(m)
      ELSE [m EXCEPT !.watch.new_frame = FALSE])
     EXCEPT !.watch.stopped = FALSE,
            !.watch.after_stop = FALSE, !.watch.jumps = {},
            !.watch.frame0 =
                IF m.ticks_since_int >= get_ticks_per_frame(m.model)
                THEN [border_colour |-> m.border_colour,
                      rom_page |-> m.rom_page, ram_page |-> m.ram_page,
                      shadow_screen |-> m.shadow_screen,
                      ignore_7ffd_port_writes |-> m.ignore_7ffd_port_writes]
                ELSE @]

\* The head of run(): normalise the tick counter and reset the events.
run_enter(m) ==
    [(IF m.ticks_since_int >= get_ticks_per_frame(m.model)
      THEN start_new_frame(m)
      ELSE [m EXCEPT !.watch.new_frame = FALSE])
     EXCEPT !.events = no_events, !.watch.stopped = FALSE,
            !.watch.after_stop = FALSE, !.watch.jumps = {},
            !.watch.frame0 =
                IF m.ticks_since_int >= get_ticks_per_frame(m.model)
                THEN [border_colour |-> m.border_colour,
                      rom_page |-> m.rom_page, ram_page |-> m.ram_page,
                      shadow_screen |-> m.shadow_screen,
                      ignore_7ffd_port_writes |-> m.ignore_7ffd_port_writes]
                ELSE @]

\* The loop test without machine_stopped.
run_continues_unstopped(m) ==
    /\ m.events \ {"machine_stopped"} = no_events
    /\ m.ticks_since_int < get_ticks_per_frame(m.model)

\* while(!events && ticks_since_int < ticks_per_frame)
run_continues(m) ==
    m.events = no_events /\ m.ticks_since_int < get_ticks_per_frame(m.model)

\* The test made with the current tick for the previous one.
int_is_offered_current_tick(m) ==
    /\ ~m.int_suppressed
    /\ m.ticks_since_int < ticks_per_active_int

\* previous_tick = ticks_since_int - 1 in the unsigned tick type; the test
\* previous_tick < ticks_per_active_int.
int_is_offered(m) ==
    /\ ~m.int_suppressed
    /\ (IF m.ticks_since_int = 0 THEN 2147483647 ELSE m.ticks_since_int - 1)
           < ticks_per_active_int

\* The tail of run() with the test ticks_since_int > ticks_per_frame.
run_return_late(m) ==
    IF m.ticks_since_int > get_ticks_per_frame(m.model)
    THEN [m EXCEPT !.events = @ \cup {"end_of_frame"}]
    ELSE m

\* The tail of run() without the signal of the end of the frame.
run_return_events_only(m) == m

\* The tail of run().
run_return(m) ==
    IF m.ticks_since_int >= get_ticks_per_frame(m.model)
    THEN [m EXCEPT !.events = @ \cup {"end_of_frame"}]
    ELSE m

\* on_step() before the decoder takes over: trace_state() writes nothing with
\* tracing off, then the visited-instruction mark is set at PC.
on_step(m) == mark_addr(m, m.pc, visited_instr_mark)

\* ------------------------------------------------------------------------
\* Bounds of the model and the inputs the actions draw from.

\* Bus callbacks the decoder makes in one instruction or one interrupt.
MaxCycles == 3

\* Bus callbacks the decoder makes while it initiates an interrupt.
MaxIntCycles == 1

\* Bus callbacks and host calls of a whole behaviour.
MaxOps == 4

\* The same, for a behaviour that starts in the last ticks of a frame.
FrameEndOps == 3

\* The same, for the behaviours of SpecPaging and of SpecBeam.
PagingOps == 4
BeamOps == 3

\* 0x4000: the first byte of the screen, in contended memory.
ScreenAddrs == {16384}

\* 0x00fe: the border port.
BorderPorts == {254}

\* 0x7ffd and 0x00fd (both decoded as the paging port), 0xbffd (not decoded).
PagingPorts == {32765, 253, 49149}

\* 0x2f (RAM 7, shadow screen, lock), 0x17 (RAM 7, ROM 1), 0x02 (RAM 2).
PagingVals == {47, 23, 2}

\* The budgets the host sets ticks_to_stop and fetches_to_stop to.
TickBudgets == {1, 6}

FetchBudgets == {1, 2}

\* In SpecBeam: the byte every cell of the image holds at first (as an
\* attribute, ink 7 on paper 0), the byte the program writes (ink 0 on
\* paper 7), the border colour at first and the colour the program sets.
BeamFills == {7}

BeamBytes == {56}

BeamBorders == {7}

BeamColours == {2}

\* ------------------------------------------------------------------------
\* Initial states.

\* No run() has returned yet.
NoRet == {"none"}

NoWatch ==
    [stopped |-> FALSE, after_stop |-> FALSE, tts_n |-> 0, tts_elapsed |-> 0,
     fts_n |-> 0, m1_count |-> 0, new_frame |-> FALSE, old_ticks |-> 0,
     jumps |-> {}, step_ticks |-> 0, frames |-> 0,
     outs |-> <<>>, poke |-> <<>>, wrote |-> <<>>, access |-> <<>>,
     loads |-> <<>>, renders |-> <<>>, packed |-> <<>>,
     callback |-> FALSE, input |-> <<>>, marked |-> <<>>,
     pixels |-> <<>>, eager |-> <<>>, idle_stops |-> 0, fast_u16 |-> 0,
     frame0 |-> [border_colour |-> 0, rom_page |-> rom0, ram_page |-> ram0,
                 shadow_screen |-> FALSE, ignore_7ffd_port_writes |-> FALSE]]

\* The machine after construction (the member initialisers of spectrum<D>),
\* with the image the host supplies (every byte = fill) and the tick counter
\* and border colour the host installs before the first run().
\* The decoder after its construction: registers zero, interrupts disabled,
\* interrupt mode 0, HL as the index register pair (iregp::hl = 0).
NoProc ==
    [bc |-> 0, de |-> 0, hl |-> 0, af |-> 0, ix |-> 0, iy |-> 0,
     alt_bc |-> 0, alt_de |-> 0, alt_hl |-> 0, alt_af |-> 0,
     sp |-> 0, ir |-> 0, wz |-> 0,
     iff1 |-> FALSE, iff2 |-> FALSE, int_mode |-> 0, iregp_kind |-> 0]

Fresh(mdl, fill, bc, t0) ==
    [model |-> mdl, bytes |-> [fill |-> fill, cells |-> <<>>],
     events |-> no_events, ticks_since_int |-> t0, ticks_to_stop |-> 0,
     fetches_to_stop |-> 0, addr_bus_value |-> 0, border_colour |-> bc,
     int_suppressed |-> FALSE, rom_page |-> rom0, ram_page |-> ram0,
     ignore_7ffd_port_writes |-> FALSE, shadow_screen |-> FALSE,
     frame_counter |-> 0, flash_mask |-> 0, render_tick |-> 0,
     latched_border_colour |-> 0, latched_pixel_pattern |-> 0,
     latched_colour_attrs |-> 0, latched_pixel_pattern2 |-> 0,
     latched_colour_attrs2 |-> 0,
     screen_chunks |-> [l \in 0 .. frame_height - 1 |-> NoLine],
     num_port_writes |-> 0, port_writes |-> <<>>, memory_marks |-> <<>>,
     pc |-> 0, int_after_ei_allowed |-> FALSE, trace_enabled |-> FALSE,
     proc |-> NoProc, hist |-> <<>>,
     watch |-> [NoWatch EXCEPT !.frame0.border_colour = bc]]

InitM(m, ops) ==
    /\ model = m.model
    /\ bytes = m.bytes
    /\ events = m.events
    /\ ticks_since_int = m.ticks_since_int
    /\ ticks_to_stop = m.ticks_to_stop
    /\ fetches_to_stop = m.fetches_to_stop
    /\ addr_bus_value = m.addr_bus_value
    /\ border_colour = m.border_colour
    /\ int_suppressed = m.int_suppressed
    /\ rom_page = m.rom_page
    /\ ram_page = m.ram_page
    /\ ignore_7ffd_port_writes = m.ignore_7ffd_port_writes
    /\ shadow_screen = m.shadow_screen
    /\ frame_counter = m.frame_counter
    /\ flash_mask = m.flash_mask
    /\ render_tick = m.render_tick
    /\ latched_border_colour = m.latched_border_colour
    /\ latched_pixel_pattern = m.latched_pixel_pattern
    /\ latched_colour_attrs = m.latched_colour_attrs
    /\ latched_pixel_pattern2 = m.latched_pixel_pattern2
    /\ latched_colour_attrs2 = m.latched_colour_attrs2
    /\ screen_chunks = m.screen_chunks
    /\ num_port_writes = m.num_port_writes
    /\ port_writes = m.port_writes
    /\ memory_marks = m.memory_marks
    /\ pc = m.pc
    /\ int_after_ei_allowed = m.int_after_ei_allowed
    /\ trace_enabled = m.trace_enabled
    /\ proc = m.proc
    /\ hist = m.hist
    /\ watch = m.watch
    /\ ctl = "idle"
    /\ cycles = 0
    /\ budget = ops
    /\ ret = NoRet

\* ------------------------------------------------------------------------
\* Actions.

\* run(), up to the loop.
RunEnter ==
    /\ ctl = "idle"
    /\ SetM(run_enter(M))
    /\ ctl' = "loop"
    /\ UNCHANGED <<cycles, budget, ret>>

\* The loop test holds and ~INT is active: on_handle_active_int() is called.
HandleActiveInt ==
    /\ ctl = "loop"
    /\ run_continues(M)
    /\ int_is_offered(M)
    /\ SetM([M EXCEPT !.watch.step_ticks = ticks_since_int])
    /\ ctl' = "int"
    /\ cycles' = 0
    /\ UNCHANGED <<budget, ret>>

\* on_handle_active_int() returns and on_step() is called.
IntReturn ==
    /\ ctl = "int"
    /\ SetM(on_step(M))
    /\ ctl' = "step"
    /\ cycles' = 0
    /\ UNCHANGED <<budget, ret>>

\* The loop test holds, ~INT is not offered: on_step() is called.
Step ==
    /\ ctl = "loop"
    /\ run_continues(M)
    /\ ~int_is_offered(M)
    /\ SetM([on_step(M) EXCEPT !.watch.step_ticks = ticks_since_int])
    /\ ctl' = "step"
    /\ cycles' = 0
    /\ UNCHANGED <<budget, ret>>

\* The decoder has finished the instruction: on_step() returns.
StepReturn ==
    /\ ctl = "step"
    /\ cycles >= 1
    /\ ctl' = "loop"
    /\ UNCHANGED <<machine_vars, cycles, budget, ret, hist, watch>>

\* The loop test fails: run() returns the events.
RunReturn ==
    /\ ctl = "loop"
    /\ ~run_continues(M)
    /\ SetM([run_return(M) EXCEPT
                !.watch.frames =
                    IF "end_of_frame" \in run_return(M).events THEN @ + 1 ELSE @])
    /\ ret' = events'
    /\ ctl' = "idle"
    /\ UNCHANGED <<cycles, budget>>

\* A bus callback made by the decoder, leaving the machine as m.
Bus(m) ==
    /\ budget > 0
    /\ cycles < (IF ctl = "int" THEN MaxIntCycles ELSE MaxCycles)
    /\ SetM([m EXCEPT !.watch.after_stop = @ \/ watch.stopped])
    /\ cycles' = cycles + 1
    /\ budget' = budget - 1
    /\ UNCHANGED <<ctl, ret>>

\* The callback is made after the opcode fetch of an instruction, or while
\* an interrupt is being initiated.
InCycle == (ctl = "step" /\ cycles >= 1) \/ ctl = "int"

M1FetchCycle ==
    /\ ctl = "step"
    /\ Bus(on_m1_fetch_cycle(M))

FetchCycle ==
    /\ ctl = "step" /\ cycles >= 1
    /\ Bus(on_fetch_cycle(M))

ReadCycle(A) ==
    /\ InCycle
    /\ \E a \in A : Bus(on_read_cycle(M, a))

WriteCycle(A, V) ==
    /\ InCycle
    /\ \E a \in A, n \in V : Bus(on_write_cycle(M, a, n))

InputCycle(A) ==
    /\ InCycle
    /\ \E a \in A, refused \in BOOLEAN : Bus(on_input_cycle(M, a, refused))

OutputCycle(A, V) ==
    /\ InCycle
    /\ \E a \in A, n \in V :
          Bus([on_output_cycle(M, a, n) EXCEPT
                  !.watch.outs =
                      Append(@, <<a, n, frame_counter, ticks_since_int>>)])

SetAddrBus(A) ==
    /\ InCycle
    /\ \E a \in A : Bus(on_set_addr_bus(M, a))

ExecCycle ==
    /\ InCycle
    /\ \/ Bus(on_3t_exec_cycle(M))
       \/ Bus(on_4t_exec_cycle(M))
       \/ Bus(on_5t_exec_cycle(M))

ExtraCycle ==
    /\ InCycle
    /\ \/ Bus(on_read_cycle_extra_1t(M))
       \/ Bus(on_read_cycle_extra_2t(M))
       \/ Bus(on_write_cycle_extra_2t(M))

SetPc(A) ==
    /\ InCycle
    /\ \E a \in A : Bus(on_set_pc(M, a))

\* The host, between two run() calls.  Host(m) is a call that leaves the
\* machine as m.
Host(m) ==
    /\ ctl = "idle"
    /\ budget > 0
    /\ SetM(m)
    /\ budget' = budget - 1
    /\ UNCHANGED <<ctl, cycles, ret>>

HostMarkAddrs(A, S, K) ==
    /\ memory_marks = <<>>
    /\ \E a \in A, size \in S, marks \in K : Host(mark_addrs(M, a, size, marks))

HostSetTicksToStop(N) ==
    /\ watch.tts_n = 0
    /\ \E n \in N :
         Host([M EXCEPT !.ticks_to_stop = n, !.watch.tts_n = n,
                        !.watch.tts_elapsed = 0])

HostSetFetchesToStop(N) ==
    /\ watch.fts_n = 0
    /\ \E n \in N :
         Host([M EXCEPT !.fetches_to_stop = n, !.watch.fts_n = n,
                        !.watch.m1_count = 0])

\* machine_emulator::install_state(), made at the head of the host's run():
\* the tick counter and the fetch budget are taken from the host's copy of
\* the state.  The host moves the tick counter forward within the frame, and
\* hands back the counter run() left when the frame has come to its end.
HostInstallState(T, F) ==
    \E t \in T \cup {ticks_since_int}, n \in F :
        /\ IF ticks_since_int >= get_ticks_per_frame(model)
           THEN t = ticks_since_int
           ELSE ticks_since_int < t
        /\ Host([M EXCEPT !.ticks_since_int = t, !.fetches_to_stop = n,
                          !.watch.fts_n = n, !.watch.m1_count = 0])

\* render_screen(), called by the host once run() has returned.
HostRenderScreen ==
    /\ ctl = "idle"
    /\ ret # NoRet
    /\ render_tick < get_ticks_per_frame(model)
    /\ SetM(render_screen(M))
    /\ UNCHANGED <<ctl, cycles, budget, ret>>

\* The same call, made when run() has reported the end of the frame.
HostRenderFrame ==
    /\ "end_of_frame" \in ret
    /\ HostRenderScreen

\* ------------------------------------------------------------------------
\* The specification of the event loop and the bus adapter.

\* A machine in the middle of a frame: it was constructed, the host
\* installed tick t - 1, and the decoder made an output cycle to port 0xfe
\* that left the border colour as it was; the beam stands at tick t.
MidFrame(mdl, fill, bc, t) ==
    [on_output_cycle(Fresh(mdl, fill, bc, t - 1), 254, bc) EXCEPT
        !.hist = <<>>,
        !.watch.outs = <<<<254, bc, 0, t - 1>>>>]

\* The start states, each with the number of callbacks and host calls the
\* behaviour makes from it: the first tick of a frame (~INT active), a tick
\* counter the host left beyond the frame, the tick before the contended
\* part of the frame, and the last ticks of a frame.
Starts ==
    { [m |-> Fresh("spectrum_48", 0, 7, 1), ops |-> MaxOps],
      [m |-> Fresh("spectrum_128", 0, 7, get_ticks_per_frame("spectrum_128") + 3),
       ops |-> MaxOps],
      [m |-> MidFrame("spectrum_128", 0, 7, get_cont_base("spectrum_128") - 8),
       ops |-> MaxOps],
      [m |-> MidFrame("spectrum_48", 0, 7, get_ticks_per_frame("spectrum_48") - 7),
       ops |-> FrameEndOps] }

Init == \E s \in Starts : InitM(s.m, s.ops)

Next ==
    \/ RunEnter
    \/ HandleActiveInt
    \/ IntReturn
    \/ Step
    \/ StepReturn
    \/ RunReturn
    \/ M1FetchCycle
    \/ FetchCycle
    \/ ReadCycle(ScreenAddrs)
    \/ WriteCycle(ScreenAddrs, BeamBytes)
    \/ InputCycle(BorderPorts)
    \/ OutputCycle(BorderPorts, BeamColours)
    \/ SetAddrBus(ScreenAddrs)
    \/ ExecCycle
    \/ ExtraCycle
    \/ SetPc(ScreenAddrs)
    \/ HostMarkAddrs(ScreenAddrs, {1}, {breakpoint_mark, visited_instr_mark})
    \/ HostSetTicksToStop(TickBudgets)
    \/ HostSetFetchesToStop(FetchBudgets)
    \/ HostRenderFrame

Spec == Init /\ [][Next]_vars

\* Everything is of the expected kind.
TypeOK ==
    /\ model \in Models
    /\ events \subseteq {"machine_stopped", "end_of_frame", "ticks_limit_hit",
                         "fetches_limit_hit", "breakpoint_hit"}
    /\ ticks_since_int \in Nat
    /\ render_tick \in Nat
    /\ border_colour \in 0 .. 7
    /\ ctl \in {"idle", "loop", "int", "step"}

\* ------------------------------------------------------------------------
\* The specification of 128K paging: output cycles, run() calls and frame
\* starts of a 128K machine that begins eight ticks before the end of a frame
\* or just after the ~INT pulse.

PagingStarts ==
    { Fresh("spectrum_128", 0, 7, get_ticks_per_frame("spectrum_128") - 8),
      Fresh("spectrum_128", 0, 7, ticks_per_active_int + 8) }

InitPaging == \E m \in PagingStarts : InitM(m, PagingOps)

NextPaging ==
    \/ RunEnter
    \/ HandleActiveInt
    \/ IntReturn
    \/ Step
    \/ StepReturn
    \/ RunReturn
    \/ M1FetchCycle
    \/ OutputCycle(PagingPorts, PagingVals)
    \/ HostSetFetchesToStop({1})

SpecPaging == InitPaging /\ [][NextPaging]_vars

\* ------------------------------------------------------------------------
\* The specification of the beam: a 48K program that makes one instruction
\* around the tick at which the beam reaches the first screen line, writing
\* to the screen or to the border, after which the host renders the frame.

BeamStarts ==
    { Fresh("spectrum_48", fill, bc, t) :
        fill \in BeamFills, bc \in BeamBorders,
        t \in get_cont_base("spectrum_48") - 6 .. get_cont_base("spectrum_48") - 4 }

InitBeam == \E m \in BeamStarts : InitM(m, BeamOps)

NextBeam ==
    \/ RunEnter
    \/ Step
    \/ StepReturn
    \/ RunReturn
    \/ M1FetchCycle
    \/ WriteCycle(ScreenAddrs, BeamBytes)
    \/ OutputCycle(BorderPorts, BeamColours)
    \/ HostSetFetchesToStop({1})
    \/ HostRenderScreen

SpecBeam == InitBeam /\ [][NextBeam]_vars

\* ------------------------------------------------------------------------
\* Properties of 128K paging, checked under SpecPaging.

InRun == ctl # "idle"

TicksPerFrame == get_ticks_per_frame(model)

\* The entry the step has added to the port-write journal.
Journalled == port_writes'[num_port_writes']

\* C1: an output cycle of a 128K machine to a port with (addr & 0x8002) = 0
\* and bit 5 of the value set, made while the lock is open, closes the lock;
\* and with the lock closed no step (output cycle of any address and value,
\* run() call, frame start) changes rom_page, ram_page, shadow_screen or the
\* lock.
C1_PagingLock ==
    [][/\ (/\ model = "spectrum_128"
           /\ ~ignore_7ffd_port_writes
           /\ num_port_writes' = num_port_writes + 1
           /\ addr_and_8002(Journalled[1]) = 0
           /\ (Journalled[2] \div 32) % 2 = 1
           => ignore_7ffd_port_writes')
       /\ (ignore_7ffd_port_writes =>
              /\ ignore_7ffd_port_writes'
              /\ UNCHANGED <<rom_page, ram_page, shadow_screen>>)]_vars

\* The lock was closed by a write of 0x2f, a frame has started since, and a
\* write of 0x02 to port 0x7ffd is in the journal of the new frame, RAM 7 and
\* the shadow screen still being selected.
C1_Witness ==
    /\ model = "spectrum_128"
    /\ ignore_7ffd_port_writes
    /\ frame_counter = 1
    /\ num_port_writes = 1
    /\ port_writes[1][1] = 32765
    /\ port_writes[1][2] = 2
    /\ ram_page = ram7
    /\ rom_page = rom0
    /\ shadow_screen

\* ------------------------------------------------------------------------
\* Properties of the beam, checked under SpecBeam.

\* The frame has been rendered to its end.
FrameRendered == ctl = "idle" /\ render_tick >= TicksPerFrame

\* The page the beam reads and the image offset of its first byte.
ScreenPage == IF shadow_screen THEN ram7 ELSE ram5

ScreenBase == ScreenPage * page_size

\* The image offsets of the pattern byte and of the attribute byte of
\* column x (0 .. 31) of display line y (0 .. 191).
PatternOff(y, x) ==
    ScreenBase + 2048 * (y \div 64) + 256 * (y % 8) + 32 * ((y % 64) \div 8) + x

AttrOff(y, x) == ScreenBase + 6144 + 32 * (y \div 8) + x

\* The render tick at which the beam latches the bytes of column x of display
\* line y: the columns are latched in pairs, one pair every eight ticks, the
\* first pair of the first line at the first contended tick.
LatchTick(y, x) ==
    get_cont_base(model) + y * get_ticks_per_line(model) + 8 * (x \div 2)

\* The write cycles of the frame to image offset off, as indices of hist.
WritesTo(off) ==
    {i \in DOMAIN hist : hist[i].op = "write" /\ hist[i].off = off}

Highest(S) == CHOOSE i \in S : \A j \in S : j <= i

Lowest(S) == CHOOSE i \in S : \A j \in S : i <= j

\* The byte at offset off as a latch at render tick l ought to see it: the
\* value of the last write cycle that started before l, or the value the
\* byte had when the frame began.
SeenAt(off, l) ==
    LET ws == WritesTo(off)
        before == {i \in ws : hist[i].tick < l}
    IN  IF ws = {}
        THEN IF off \in DOMAIN bytes.cells THEN bytes.cells[off] ELSE bytes.fill
        ELSE IF before = {} THEN hist[Lowest(ws)].old
        ELSE hist[Highest(before)].new

\* The colour of the pixel that bit b of pattern byte p stands for under
\* attribute byte a.
PixelColour(p, a, b) ==
    LET bright == 8 * ((a \div 64) % 2)
        q == IF a >= 128 /\ flash_mask # 0 THEN 255 - p ELSE p
    IN  IF (q \div 2 ^ b) % 2 = 1 THEN (a % 8) + bright
        ELSE ((a \div 8) % 8) + bright

\* The chunk of eight pixels that pattern byte p makes under attribute a.
PixelChunk(p, a) ==
    << 16 * PixelColour(p, a, 7) + PixelColour(p, a, 6),
       16 * PixelColour(p, a, 5) + PixelColour(p, a, 4),
       16 * PixelColour(p, a, 3) + PixelColour(p, a, 2),
       16 * PixelColour(p, a, 1) + PixelColour(p, a, 0) >>

\* The chunk the frame buffer holds for column x of display line y.
ShownChunk(y, x) ==
    screen_chunks[top_border_height + y][border_width \div 8 + x]

\* The cells (display line, column) whose pattern byte or attribute byte a
\* write cycle of the frame went to.
WrittenCells ==
    {c \in (0 .. screen_height - 1) \X (0 .. 31) :
        WritesTo(PatternOff(c[1], c[2])) # {} \/ WritesTo(AttrOff(c[1], c[2])) # {}}

\* C2: on_write_cycle started at tick t leaves the beam at t + 1 or beyond,
\* adds the contention delay of tick t for a contended address and then the
\* three ticks of the write; and in the rendered frame every cell written to
\* shows the bytes as they were before all write cycles started at or after
\* the tick of its latch, and after all write cycles started before it.
C2_WriteAfterBeam ==
    /\ [](FrameRendered =>
            \A c \in WrittenCells :
                ShownChunk(c[1], c[2]) =
                    PixelChunk(SeenAt(PatternOff(c[1], c[2]), LatchTick(c[1], c[2])),
                               SeenAt(AttrOff(c[1], c[2]), LatchTick(c[1], c[2]))))
    /\ [][Len(hist') = Len(hist) + 1 /\ hist'[Len(hist')].op = "write" =>
            LET w == hist'[Len(hist')]
                d == IF w.addr >= 16384 /\ w.addr < 32768
                     THEN contention_delay(model, w.tick) ELSE -1
            IN  /\ w.tick = ticks_since_int
                /\ render_tick' = IF render_tick > w.tick THEN render_tick
                                  ELSE w.tick + 1
                /\ ticks_since_int' = w.tick + (IF d < 0 THEN 0 ELSE d) + 3]_vars

\* A write cycle to 0x4000 started at the very tick at which the beam latches
\* that byte: the byte is written, and the frame shows the old one.
C2_Witness ==
    /\ FrameRendered
    /\ \E i \in DOMAIN hist :
          /\ hist[i].op = "write"
          /\ hist[i].off = PatternOff(0, 0)
          /\ hist[i].tick = LatchTick(0, 0)
    /\ SeenAt(PatternOff(0, 0), TicksPerFrame) = 56
    /\ ShownChunk(0, 0) = PixelChunk(7, 7)
    /\ ShownChunk(0, 0) # PixelChunk(56, 7)

\* The border bytes of the frame buffer, as pairs of a line and the index of
\* a pixel pair in it, and the render tick at which the beam emits each.
BorderPairs ==
    {b \in (0 .. frame_height - 1) \X (0 .. frame_width \div 2 - 1) :
        \/ b[1] < top_border_height
        \/ b[1] >= top_border_height + screen_height
        \/ b[2] < border_width \div 2
        \/ b[2] >= (border_width + screen_width) \div 2}

EmitTick(b) ==
    (b[1] + 64 - top_border_height) * get_ticks_per_line(model) + b[2]
        - (border_width \div 2 - 4)

ShownPair(b) == screen_chunks[b[1]][b[2] \div 4][(b[2] % 4) + 1]

\* The frame saw one write to port 0xfe, started at tick t.
OneBorderWrite(t) ==
    /\ FrameRendered
    /\ Len(hist) = 1
    /\ hist[1].op = "border"
    /\ hist[1].tick = t

\* The border colour is sampled every fourth tick: the pair emitted at render
\* tick r carries the new colour iff the sample at or before r was taken
\* after the write began.
BorderRule ==
    \A b \in BorderPairs :
        ShownPair(b) = 17 * (IF 4 * (EmitTick(b) \div 4) >= hist[1].tick + 1
                             THEN hist[1].new ELSE hist[1].old)

\* C3, as the specification states it: the pairs emitted at render_tick >=
\* 14336 carry colour 2, the earlier ones the old colour, and the first of
\* the new colour lies in the left border of frame line 63.
C3_Original ==
    OneBorderWrite(14335) =>
        /\ \A b \in BorderPairs :
              ShownPair(b) = 17 * (IF EmitTick(b) >= 14336 THEN hist[1].new
                                   ELSE hist[1].old)
        /\ \E b \in BorderPairs :
              /\ b[1] = 63 - (64 - top_border_height)
              /\ b[2] < border_width \div 2
              /\ ShownPair(b) = 17 * hist[1].new

\* C3, as the code has it: after one write to port 0xfe the rendered border
\* follows BorderRule; for the write started at tick 14335 the pairs emitted
\* at render_tick >= 14336 carry the new colour and the earlier ones the old
\* colour, and the first pair of the new colour is pair 20 (pixels 40 and 41,
\* in the left border) of frame line 64, the first line of the screen area;
\* frame line 63 keeps the old colour.
C3_BorderWrite ==
    /\ (\E t \in 0 .. TicksPerFrame : OneBorderWrite(t)) => BorderRule
    /\ OneBorderWrite(14335) =>
          /\ \A b \in BorderPairs :
                ShownPair(b) = 17 * (IF EmitTick(b) >= 14336 THEN hist[1].new
                                     ELSE hist[1].old)
          /\ EmitTick(<<top_border_height, 20>>) = 14336
          /\ ShownPair(<<top_border_height, 20>>) = 17 * hist[1].new
          /\ ShownPair(<<top_border_height, 19>>) = 17 * hist[1].old
          /\ \A k \in 0 .. frame_width \div 2 - 1 :
                ShownPair(<<top_border_height - 1, k>>) = 17 * hist[1].old

\* The frame of a 48K machine rendered after an output of 2 to port 0xfe at
\* tick 14335, the border having been white.
C3_Witness ==
    /\ model = "spectrum_48"
    /\ OneBorderWrite(14335)
    /\ hist[1].old = 7
    /\ hist[1].new = 2
    /\ border_colour = 2
    /\ ShownPair(<<top_border_height, 20>>) = 34
    /\ ShownPair(<<top_border_height, 19>>) = 119

\* ------------------------------------------------------------------------
\* Properties of the event loop, checked under Spec.

\* run() returns in this step.
Returns == ctl = "loop" /\ ctl' = "idle"

\* C4, as the specification states it: in every state inside run(),
\* 0 <= render_tick <= ticks_since_int <= ticks_per_frame.
C4_Original ==
    InRun => /\ 0 <= render_tick
             /\ render_tick <= ticks_since_int
             /\ ticks_since_int <= TicksPerFrame

\* C4, as the code has it: inside run() 0 <= render_tick <= ticks_since_int,
\* and every pass of the loop begins at a tick below ticks_per_frame; the
\* instruction that crosses the end of the frame carries both counters past
\* ticks_per_frame.
C4_TicksOrdered ==
    /\ InRun => 0 <= render_tick /\ render_tick <= ticks_since_int
    /\ ctl \in {"step", "int"} => watch.step_ticks < TicksPerFrame

\* A write cycle has started beyond the end of the frame: the beam and the
\* tick counter are both past ticks_per_frame.
C4_Witness ==
    /\ ctl = "step"
    /\ render_tick > TicksPerFrame
    /\ ticks_since_int > render_tick

\* C5: run() calls start_new_frame exactly when ticks_since_int >=
\* ticks_per_frame on entry; after it render_tick = 0, ticks_since_int is its
\* old value mod ticks_per_frame, frame_counter has grown by one and the
\* port-write journal is empty.  Otherwise the four are left alone.
C5_FrameStart ==
    [][ctl = "idle" /\ ctl' = "loop" =>
        IF ticks_since_int >= TicksPerFrame
        THEN /\ render_tick' = 0
             /\ ticks_since_int' = ticks_since_int % TicksPerFrame
             /\ ticks_since_int' < TicksPerFrame
             /\ frame_counter' = frame_counter + 1
             /\ num_port_writes' = 0
        ELSE UNCHANGED <<render_tick, ticks_since_int, frame_counter,
                         num_port_writes>>]_vars

\* run() was entered beyond the end of a frame in which the beam had moved
\* and a port write was recorded.
C5_Witness ==
    /\ ctl = "loop"
    /\ watch.new_frame
    /\ watch.old_ticks > TicksPerFrame
    /\ Len(port_writes) > 0
    /\ num_port_writes = 0
    /\ render_tick = 0
    /\ frame_counter = 1

\* C6: an instruction (or an interrupt followed by an instruction) begins only
\* with an empty mask and ticks_since_int < ticks_per_frame; once begun it
\* runs to its end whatever happens to the mask and the tick counter; run()
\* returns the mask, and end_of_frame is in it iff ticks_since_int >=
\* ticks_per_frame.
C6_LoopTest ==
    [][/\ (ctl = "loop" /\ ctl' \in {"step", "int"} =>
              events = no_events /\ ticks_since_int < TicksPerFrame)
       /\ (ctl \in {"step", "int"} => ctl' # "idle")
       /\ (Returns =>
              /\ ~(events = no_events /\ ticks_since_int < TicksPerFrame)
              /\ ret' = events'
              /\ events \subseteq ret'
              /\ ("end_of_frame" \in ret' <=> ticks_since_int' >= TicksPerFrame)
              /\ ticks_since_int' = ticks_since_int)]_vars

\* run() has returned end_of_frame together with another event.
C6_Witness ==
    /\ ctl = "idle"
    /\ "end_of_frame" \in ret
    /\ ret # {"end_of_frame"}
    /\ ticks_since_int >= TicksPerFrame

\* C7, as the specification states it: ticks_limit_hit comes no later than N
\* ticks after ticks_to_stop was set to N.
C7_Original ==
    "ticks_limit_hit" \in events => watch.tts_elapsed <= watch.tts_n

\* C7, as the code has it: with ticks_to_stop set to N > 0 the counter is N
\* less the ticks elapsed, ticks_limit_hit is latched by the on_tick call in
\* which the N-th tick elapses and never before, and run() returns with it
\* at the end of that instruction, N ticks or more after the setting; with
\* ticks_to_stop = 0 nothing is latched and the counter stays 0.
C7_TicksDeadline ==
    /\ [](/\ "ticks_limit_hit" \in events =>
                watch.tts_n > 0 /\ watch.tts_elapsed >= watch.tts_n
          /\ watch.tts_elapsed < watch.tts_n =>
                ticks_to_stop = watch.tts_n - watch.tts_elapsed
          /\ watch.tts_elapsed >= watch.tts_n => ticks_to_stop = 0)
    /\ [][/\ (watch.tts_elapsed < watch.tts_n /\
              watch.tts_elapsed' >= watch.tts_n' =>
                 "ticks_limit_hit" \in events')
          /\ (ctl = "loop" /\ "ticks_limit_hit" \in events =>
                 ctl' = "idle" /\ "ticks_limit_hit" \in ret')]_vars

\* run() has returned ticks_limit_hit more than N ticks after the setting.
C7_Witness ==
    /\ ctl = "idle"
    /\ "ticks_limit_hit" \in ret
    /\ watch.tts_n > 0
    /\ watch.tts_elapsed > watch.tts_n

\* C8: with fetches_to_stop set to N > 0 every m1 fetch takes one off the
\* counter, fetches_limit_hit is latched at the N-th m1 fetch and not earlier,
\* and run() returns with it at the end of that instruction; with
\* fetches_to_stop = 0 the counter stays 0 and nothing is latched.
C8_FetchesDeadline ==
    /\ [](/\ "fetches_limit_hit" \in events =>
                watch.fts_n > 0 /\ watch.m1_count >= watch.fts_n
          /\ watch.fts_n > 0 /\ watch.m1_count < watch.fts_n =>
                fetches_to_stop = watch.fts_n - watch.m1_count
          /\ watch.fts_n = 0 \/ watch.m1_count >= watch.fts_n =>
                fetches_to_stop = 0)
    /\ [][/\ ("fetches_limit_hit" \notin events /\
              "fetches_limit_hit" \in events' =>
                 watch.m1_count' = watch.fts_n' /\
                 watch.m1_count = watch.fts_n - 1)
          /\ (watch.fts_n > 0 /\ watch.m1_count < watch.fts_n /\
              watch.m1_count' = watch.fts_n' =>
                 "fetches_limit_hit" \in events')
          /\ (ctl = "loop" /\ "fetches_limit_hit" \in events =>
                 ctl' = "idle" /\ "fetches_limit_hit" \in ret')]_vars

\* run() has returned fetches_limit_hit at the second m1 fetch after
\* fetches_to_stop was set to 2.
C8_Witness ==
    /\ ctl = "idle"
    /\ "fetches_limit_hit" \in ret
    /\ watch.fts_n = 2
    /\ watch.m1_count = 2

\* C9: after stop() inside a step the mask holds machine_stopped for the rest
\* of run(), the instruction goes on to its end, and at the next loop test
\* run() returns with machine_stopped and begins no instruction.
C9_StopMidStep ==
    /\ [](InRun /\ watch.stopped => "machine_stopped" \in events)
    /\ [][/\ (ctl = "step" /\ watch.stopped => ctl' \in {"step", "loop"})
          /\ (ctl = "loop" /\ watch.stopped =>
                 ctl' = "idle" /\ "machine_stopped" \in ret')]_vars

\* stop() was called from on_input, the decoder made another callback of the
\* same instruction, and run() has returned machine_stopped.
C9_Witness ==
    /\ ctl = "idle"
    /\ watch.stopped
    /\ watch.after_stop
    /\ "machine_stopped" \in ret

\* memory_marks[a] has the breakpoint bit.
HasBreakpoint(a) == marks_at(memory_marks, a) % 2 = 1

\* C10: inside run(), breakpoint_hit is in the mask iff on_set_pc was called
\* with an address that carries the breakpoint mark (the visited-instruction
\* mark alone does not count); on_set_pc makes its argument the PC; and
\* run() returns with breakpoint_hit once it is latched.
C10_Breakpoint ==
    /\ [](InRun => ("breakpoint_hit" \in events <=>
                        \E a \in watch.jumps : HasBreakpoint(a)))
    /\ [][/\ (watch.jumps' # watch.jumps /\ watch.jumps' # {} =>
                 pc' \in watch.jumps')
          /\ (ctl = "loop" /\ "breakpoint_hit" \in events =>
                 ctl' = "idle" /\ "breakpoint_hit" \in ret')]_vars

\* After mark_addrs(0x4000, 1, breakpoint_mark) a jump to 0x4000 has ended
\* run() with breakpoint_hit, the PC being 0x4000.
C10_Witness ==
    /\ ctl = "idle"
    /\ "breakpoint_hit" \in ret
    /\ HasBreakpoint(16384)
    /\ pc = 16384

\* ------------------------------------------------------------------------
\* The specification of the frame counter: a new 48K machine whose host lets
\* run() execute one instruction at a time (fetches_to_stop = 1) and moves
\* the tick counter to the last ticks of the frame between two run() calls,
\* so that MaxFrames frames come to their end.

MaxFrames == 33

FrameOps == 4 * MaxFrames + 4

\* Three ticks before the end: the instruction ends one tick into the next
\* frame, where ~INT is active.
FrameEndTicks == { get_ticks_per_frame("spectrum_48") - 3 }

InitFrames == InitM(Fresh("spectrum_48", 0, 7, 0), FrameOps)

\* The instructions of this program are one opcode fetch long.
OpcodeFetch == cycles = 0 /\ M1FetchCycle

\* The host installs a fetch budget of one and the tick counter.
FastForward ==
    /\ watch.frames < MaxFrames
    /\ HostInstallState(FrameEndTicks, {1})

NextFrames ==
    \/ RunEnter
    \/ HandleActiveInt
    \/ IntReturn
    \/ Step
    \/ StepReturn
    \/ RunReturn
    \/ OpcodeFetch
    \/ FastForward

SpecFrames == InitFrames /\ [][NextFrames]_vars

\* C11, as the specification states it: once run() has brought 16 frames to
\* their end flash_mask is 0xffff, and once it has brought 32 to their end
\* flash_mask is 0.
C11_Original ==
    /\ watch.frames = 16 => flash_mask = 65535
    /\ watch.frames = 32 => flash_mask = 0

\* C11, as the code has it: flash_mask is 0 or 0xffff; it is toggled by every
\* 16th frame start, and a frame that has come to its end is counted by the
\* frame start at the entry of the next run(); so flash_mask is still 0
\* when run() returns the end of the 16th frame, 0xffff from the frame start
\* that follows it, still 0xffff when run() returns the end of the 32nd
\* frame, and 0 from the frame start that follows that.
C11_FlashToggle ==
    /\ flash_mask \in {0, 65535}
    /\ flash_mask = (IF (frame_counter \div 16) % 2 = 1 THEN 65535 ELSE 0)
    /\ frame_counter =
          watch.frames - (IF ctl = "idle" /\ ticks_since_int >= TicksPerFrame
                          THEN 1 ELSE 0)

\* The frame start after the 32nd frame has run, the mask having been
\* toggled twice.
C11_Witness ==
    /\ watch.frames = 32
    /\ frame_counter = 32
    /\ flash_mask = 0
    /\ ctl = "loop"

\* ------------------------------------------------------------------------
\* Properties of the port-write journal.

\* The output cycles made since the last frame start, in the order of the
\* calls.
FrameOuts == SelectSeq(watch.outs, LAMBDA o : o[3] = frame_counter)

\* C12: the journal holds one entry for each output cycle of the frame, the
\* i-th entry being the address and the value of the i-th cycle and the tick
\* counter as it was when the cycle was entered; the ticks do not decrease
\* along the journal, and every one is below the tick counter the cycle left.
C12_JournalOrder ==
    /\ num_port_writes = Len(FrameOuts)
    /\ \A i \in 1 .. num_port_writes :
          /\ port_writes[i] = <<FrameOuts[i][1], FrameOuts[i][2], FrameOuts[i][4]>>
          /\ port_writes[i][3] < ticks_since_int
    /\ \A i, j \in 1 .. num_port_writes :
          i < j => port_writes[i][3] <= port_writes[j][3]

\* Two output cycles of one instruction, with two addresses and two values,
\* are in the journal in the order they were made, the second with the later
\* tick.
C12_Witness ==
    /\ num_port_writes = 2
    /\ port_writes[1][1] = 32765 /\ port_writes[1][2] = 23
    /\ port_writes[2][1] = 49149 /\ port_writes[2][2] = 2
    /\ port_writes[1][3] < port_writes[2][3]

\* ------------------------------------------------------------------------
\* The specification of the full journal: a 128K machine in a frame in
\* which a program of OUT (n), A instructions, eleven ticks each, has filled
\* the journal but for JournalRoom entries, after which the host has handed
\* in a tick counter early in the frame (install_state) and called run()
\* again; the decoder then makes output cycles to the border port and to the
\* paging port.

JournalOps == 6

\* The tick counter the host hands in: past the ~INT pulse.
JournalTick == ticks_per_active_int + 8

JournalRoom == 1

\* The journal k OUT (n), A instructions leave: f(4) r(3) o(4), the output
\* cycle of the i-th entered at tick 11 * (i - 1) + 7.
JournalOf(k) == [i \in 1 .. k |-> <<49149, 0, 11 * (i - 1) + 7>>]

JournalStart(k) ==
    [Fresh("spectrum_128", 0, 7, JournalTick)
        EXCEPT !.num_port_writes = k, !.port_writes = JournalOf(k)]

JournalPorts == {254, 32765}

JournalVals == {2, 23}

InitJournal ==
    \E k \in max_num_port_writes - JournalRoom .. max_num_port_writes :
        InitM(JournalStart(k), JournalOps)

NextJournal ==
    \/ RunEnter
    \/ Step
    \/ StepReturn
    \/ M1FetchCycle
    \/ OutputCycle(JournalPorts, JournalVals)

SpecJournal == InitJournal /\ [][NextJournal]_vars

\* The step is an output cycle.
IsOutput == Len(watch.outs') = Len(watch.outs) + 1

\* The address and the value of the output cycle the step makes.
OutAddr == watch.outs'[Len(watch.outs')][1]

OutVal == watch.outs'[Len(watch.outs')][2]

\* C13: num_port_writes is never above ceil(70908 / 11) = 6447; an output
\* cycle made with room in the journal adds its entry; one made with the
\* journal full leaves the count, the entries and the event mask alone, and
\* still sets the border colour (port 0xfe), still pages (unlocked 128K
\* paging port) and still adds the four ticks of the port access.
C13_JournalFull ==
    /\ [](num_port_writes <= max_num_port_writes /\ max_num_port_writes = 6447)
    /\ [][IsOutput =>
            /\ IF num_port_writes < max_num_port_writes
               THEN /\ num_port_writes' = num_port_writes + 1
                    /\ Journalled = <<OutAddr, OutVal, ticks_since_int>>
               ELSE /\ num_port_writes' = num_port_writes
                    /\ port_writes' = port_writes
                    /\ events' = events
            /\ OutAddr % 256 = 254 => border_colour' = OutVal % 8
            /\ (addr_and_8002(OutAddr) = 0 /\ ~ignore_7ffd_port_writes =>
                  /\ ram_page' = get_ram_page(OutVal % 8)
                  /\ rom_page' = get_rom_page((OutVal \div 16) % 2))
            /\ ticks_since_int' >= ticks_since_int + 4]_vars

\* With the journal full, output cycles to the border port and to the paging
\* port have been made: the journal is as the program of OUT instructions
\* left it, the border is red and RAM 7 and ROM 1 are paged in.
C13_Witness ==
    /\ num_port_writes = max_num_port_writes
    /\ frame_counter = 0
    /\ Len(watch.outs) >= 2
    /\ port_writes = JournalOf(max_num_port_writes)
    /\ border_colour = 2
    /\ ram_page = ram7
    /\ rom_page = rom1
    /\ events = no_events

\* ------------------------------------------------------------------------
\* The specification of the densest frame: a new machine of either model
\* runs, with interrupts disabled, a program of nothing but the shortest OUT
\* instruction, OUT (n), A: an opcode fetch, the read of n and the output
\* cycle, f(4) r(3) o(4), fetched from ROM and written to an uncontended
\* port, eleven ticks in all.  The frame begins at tick 0.  The behaviours begin
\* OutTail instructions or fewer before the end of the frame, in the state
\* the instructions before have left.

OutTail == 6

\* 0x8000, uncontended memory; 0xbffd, an uncontended port no device decodes.
OutReadAddrs == {32768}

OutPorts == {49149}

OutVals == {0}

OutOps == 3 * (OutTail + 1)

\* One OUT (n), A, as run() executes it: on_step, then the three cycles.
OutInstr(m) ==
    LET r == on_read_cycle(on_m1_fetch_cycle(on_step(m)), 32768)
    IN  [on_output_cycle(r, 49149, 0) EXCEPT
            !.watch.outs =
                Append(@, <<49149, 0, m.frame_counter, r.ticks_since_int>>)]

\* k instructions in a row, composed in halves.
RECURSIVE OutInstrs(_, _)
OutInstrs(m, k) ==
    IF k = 0 THEN m
    ELSE IF k = 1 THEN OutInstr(m)
    ELSE LET h == k \div 2
             mid == OutInstrs(m, h)
         IN  IF mid.num_port_writes >= 0 THEN OutInstrs(mid, k - h) ELSE mid

\* The instructions of the frame: one begins every eleventh tick below
\* ticks_per_frame.
OutTotal(mdl) ==
    (get_ticks_per_frame(mdl) + ticks_per_shortest_out_instr - 1)
        \div ticks_per_shortest_out_instr

OutStart(mdl) == OutInstrs(Fresh(mdl, 0, 7, 0), OutTotal(mdl) - OutTail)

InitOuts ==
    \E mdl \in Models :
        LET base == OutStart(mdl)
        IN  \E k \in 0 .. OutTail - 1 : InitM(OutInstrs(base, k), OutOps)

OutRun == ret = NoRet /\ RunEnter

OutFetch == cycles = 0 /\ M1FetchCycle

OutRead == cycles = 1 /\ ReadCycle(OutReadAddrs)

OutWrite == cycles = 2 /\ OutputCycle(OutPorts, OutVals)

OutReturn == cycles = 3 /\ StepReturn

NextOuts ==
    \/ OutRun
    \/ Step
    \/ OutFetch
    \/ OutRead
    \/ OutWrite
    \/ OutReturn
    \/ RunReturn

SpecOuts == InitOuts /\ [][NextOuts]_vars

\* C14: in a frame of OUT (n), A instructions, whose output cycles are eleven
\* ticks apart, the output cycles made since the frame start are never more
\* than the capacity of the journal, the one of the instruction that ends
\* beyond the frame included, and every one of them is in the journal.
C14_CapacitySuffices ==
    /\ frame_counter = 0
    /\ Len(watch.outs) <= max_num_port_writes
    /\ num_port_writes = Len(watch.outs)
    /\ \A i \in 1 .. num_port_writes :
          /\ port_writes[i][3] = watch.outs[i][4]
          /\ i > 1 => port_writes[i][3] - port_writes[i - 1][3] = 11

\* The 128K frame has come to its end with the journal exactly full: 6447
\* output cycles, the last entered at tick 70913, in the instruction that
\* began at tick 70906 and ended beyond the frame, at tick 70917.
C14_Witness ==
    /\ model = "spectrum_128"
    /\ ctl = "idle"
    /\ "end_of_frame" \in ret
    /\ ticks_since_int = 70917
    /\ Len(watch.outs) = max_num_port_writes
    /\ num_port_writes = max_num_port_writes
    /\ port_writes[num_port_writes][3] = 70913

\* ------------------------------------------------------------------------
\* The specification of the replay: a 128K machine makes output cycles to
\* the border port and to the paging port, beginning early in a frame with an
\* empty journal, or at the start of a frame the paging lock was closed
\* before, or with the journal full (as in SpecJournal).

ReplayOps == 5

ReplayPorts == {254, 32765}

\* 0x02 (RAM 2, red border) and 0x2f (RAM 7, shadow screen, lock; white).
ReplayVals == {2, 47}

\* The machine at the start of its second frame, the first having ended with
\* an output of 0x2f to port 0x7ffd.
LockedStart ==
    LET t == get_ticks_per_frame("spectrum_128") - 4
        m == on_output_cycle(Fresh("spectrum_128", 0, 7, t), 32765, 47)
    IN  [run_enter([m EXCEPT !.watch.outs = <<<<32765, 47, 0, t>>>>])
            EXCEPT !.watch.new_frame = FALSE, !.watch.old_ticks = 0]

\* The machine of JournalStart with the journal full, the output cycles that
\* filled it being on record.
FullStart ==
    [JournalStart(max_num_port_writes) EXCEPT
        !.watch.outs = [i \in 1 .. max_num_port_writes |->
                           <<49149, 0, 0, 11 * (i - 1) + 7>>]]

ReplayStarts ==
    { Fresh("spectrum_128", 0, 7, JournalTick), LockedStart, FullStart }

InitReplay == \E m \in ReplayStarts : InitM(m, ReplayOps)

NextReplay ==
    \/ RunEnter
    \/ Step
    \/ StepReturn
    \/ M1FetchCycle
    \/ OutputCycle(ReplayPorts, ReplayVals)

SpecReplay == InitReplay /\ [][NextReplay]_vars

\* The second machine: a new machine of the same model with the border
\* colour and the paging the first had at the frame start.
SecondMachine ==
    [Fresh(model, 0, watch.frame0.border_colour, 0) EXCEPT
        !.rom_page = watch.frame0.rom_page,
        !.ram_page = watch.frame0.ram_page,
        !.shadow_screen = watch.frame0.shadow_screen,
        !.ignore_7ffd_port_writes = watch.frame0.ignore_7ffd_port_writes]

\* on_output_cycle with entries i .. i + n - 1 of the journal, in order,
\* n >= 1; composed in halves.
RECURSIVE Replay(_, _, _)
Replay(m, i, n) ==
    IF n = 1 THEN on_output_cycle(m, port_writes[i][1], port_writes[i][2])
    ELSE LET h == n \div 2
             mid == Replay(m, i, h)
         IN  IF mid.num_port_writes >= 0 THEN Replay(mid, i + h, n - h)
             ELSE mid

Replayed ==
    IF num_port_writes = 0 THEN SecondMachine
    ELSE Replay(SecondMachine, 1, num_port_writes)

\* The second machine ends with the border colour and the paging of the
\* first.
ReplayAgrees ==
    LET r == Replayed
    IN  /\ r.border_colour = border_colour
        /\ r.rom_page = rom_page
        /\ r.ram_page = ram_page
        /\ r.shadow_screen = shadow_screen

\* Every output cycle of the frame is in the journal.
NoDrop == num_port_writes = Len(FrameOuts)

\* C15, as the specification states it: the replay of the journal agrees
\* with the first machine in every state.
C15_Original == ReplayAgrees

\* C15, as the code has it: the replay of the journal agrees with the first
\* machine as long as no output cycle of the frame was dropped from a full
\* journal.
C15_Replay == NoDrop => ReplayAgrees

\* A frame in which the border was made red and then the paging port was
\* written with 0x2f, closing the lock: the replay of the two entries gives
\* the red border, RAM 7 and the shadow screen.
C15_Witness ==
    /\ NoDrop
    /\ num_port_writes = 2
    /\ port_writes[1][1] = 254 /\ port_writes[1][2] = 2
    /\ port_writes[2][1] = 32765 /\ port_writes[2][2] = 47
    /\ border_colour = 2
    /\ ram_page = ram7
    /\ shadow_screen
    /\ Replayed.ram_page = ram7
    /\ Replayed.border_colour = 2
    /\ Replayed.ignore_7ffd_port_writes

\* ------------------------------------------------------------------------
\* The specification of the memory: on_write() followed by on_read() of the
\* same address, on a 48K machine and on 128K machines with several pages
\* selected; the image starts as one byte value everywhere.

MemOps == 2

\* The ends of the four 16K windows of the address space.
MemAddrs == {0, 16383, 16384, 32767, 32768, 49151, 49152, 65535}

MemVals == {0, 165}

MemFills == {0, 255}

\* The values written to port 0x7ffd before the run: ROM 0 and RAM 0, ROM 1
\* and RAM 7, RAM 5 (the page that is also at 0x4000), ROM 1 and RAM 2.
MemPagings == {0, 23, 5, 18}

MemStarts ==
    { Fresh("spectrum_48", f, 7, JournalTick) : f \in MemFills }
        \cup { on_output_cycle(Fresh("spectrum_128", f, 7, JournalTick),
                                32765, n) : f \in MemFills, n \in MemPagings }

InitMemory == \E m \in MemStarts : InitM(m, MemOps)

\* on_write(a, n) and then on_read(a).
WriteThenRead(A, V) ==
    /\ budget > 0
    /\ \E a \in A, n \in V :
          LET w == on_write(M, a, n)
          IN  SetM([w EXCEPT !.watch.poke =
                        <<a, n, on_read(M, a), on_read(w, a)>>])
    /\ budget' = budget - 1
    /\ UNCHANGED <<ctl, cycles, ret>>

NextMemory == WriteThenRead(MemAddrs, MemVals)

SpecMemory == InitMemory /\ [][NextMemory]_vars

Poked == watch.poke # <<>>

\* C16, as the specification states it: the byte read after on_write(a, v)
\* is v exactly when a >= 0x4000, and below 0x4000 it is the byte read
\* before.
C16_Original ==
    Poked =>
        /\ (watch.poke[4] = watch.poke[2]) <=> (watch.poke[1] >= 16384)
        /\ watch.poke[1] < 16384 => watch.poke[4] = watch.poke[3]

\* C16, as the code has it: the byte read after on_write(a, v) is v when
\* a >= 0x4000, and below 0x4000 it is the byte read before, which is v
\* when the ROM byte was v already.
C16_ReadAfterWrite ==
    Poked =>
        /\ watch.poke[1] >= 16384 => watch.poke[4] = watch.poke[2]
        /\ watch.poke[1] < 16384 => watch.poke[4] = watch.poke[3]

\* A write of 0xa5 to the last byte of the ROM window is followed by a read
\* of the 0xff that was there, after a write of 0xa5 to the first byte of the
\* paged window of a 128K machine with ROM 1 and RAM 7 selected.
C16_Witness ==
    /\ rom_page = rom1 /\ ram_page = ram7
    /\ watch.poke = <<16383, 165, 255, 255>>
    /\ on_read(M, 49152) = 165
    /\ budget = 0

\* ------------------------------------------------------------------------
\* The specification of the two write paths: writes through
\* spectrum::on_write() and writes through memory_image::write(), which the
\* memory that on_get_memory() returns offers to every holder, with the
\* pages the machine has selected.

SpectrumWrite(A, V) ==
    /\ budget > 0
    /\ \E a \in A, n \in V :
          SetM([on_write(M, a, n) EXCEPT !.watch.wrote = <<a, bytes>>])
    /\ budget' = budget - 1
    /\ UNCHANGED <<ctl, cycles, ret>>

ImageWrite(A, V) ==
    /\ budget > 0
    /\ \E a \in A, n \in V :
          SetM([M EXCEPT !.bytes = image_write(@, a, n, rom_page, ram_page),
                         !.watch.wrote = <<a, bytes>>])
    /\ budget' = budget - 1
    /\ UNCHANGED <<ctl, cycles, ret>>

NextImage ==
    \/ SpectrumWrite(MemAddrs, MemVals)
    \/ ImageWrite(MemAddrs, MemVals)

SpecImage == InitMemory /\ [][NextImage]_vars

\* The two images hold the same bytes.
SameImage(a, b) ==
    /\ a.fill = b.fill
    /\ \A o \in DOMAIN a.cells \cup DOMAIN b.cells :
          (IF o \in DOMAIN a.cells THEN a.cells[o] ELSE a.fill)
              = (IF o \in DOMAIN b.cells THEN b.cells[o] ELSE b.fill)

\* C17: after a write below 0x4000, through spectrum::on_write() or through
\* memory_image::write(), the image holds the bytes it held before the
\* write, whichever ROM page is selected.
C17_RomWritesIgnored ==
    (watch.wrote # <<>> /\ watch.wrote[1] < 16384)
        => SameImage(bytes, watch.wrote[2])

\* ------------------------------------------------------------------------
\* The specification of the page selection: instructions of a 48K and of a
\* 128K machine that make output cycles to the paging port, to ports that
\* decode as it or do not, and to the border port, with values that select
\* every RAM page and both ROM pages, with and without the lock.

PagesOps == 4

\* 0x7ffd, 0x00fd (decodes as 0x7ffd), 0xbffd and 0xffff (do not), 0xfe.
PagesPorts == {32765, 253, 49149, 65535, 254}

PagesVals == 0 .. 7 \cup {16, 23, 24, 47, 255}

PagesStarts == { Fresh(mdl, 0, 7, JournalTick) : mdl \in Models }

InitPages == \E m \in PagesStarts : InitM(m, PagesOps)

NextPages ==
    \/ RunEnter
    \/ Step
    \/ StepReturn
    \/ M1FetchCycle
    \/ OutputCycle(PagesPorts, PagesVals)

SpecPages == InitPages /\ [][NextPages]_vars

RomPages == {rom0, rom1}

RamPages == {ram0, ram1, ram2, ram3, ram4, ram5, ram6, ram7}

\* C18: in every reachable state of both models rom_page is rom0 or rom1 and
\* ram_page is one of ram0 .. ram7 and no ROM page, which is what get_offset()
\* asserts of them; and the page read and selected for the 0xc000 window lies
\* within the image.
C18_PagesValid ==
    /\ rom_page \in RomPages
    /\ ram_page \in RamPages
    /\ ram_page \notin RomPages
    /\ get_offset(0, rom_page, ram_page) = rom_page * page_size
    /\ get_offset(65535, rom_page, ram_page) = ram_page * page_size + 16383

\* A 128K machine on which ROM 1 and RAM 7 were selected and then ROM 0 and
\* RAM 5.
C18_Witness ==
    /\ model = "spectrum_128"
    /\ num_port_writes = 2
    /\ port_writes[1][1] = 32765 /\ port_writes[1][2] = 23
    /\ port_writes[2][1] = 253 /\ port_writes[2][2] = 5
    /\ rom_page = rom0
    /\ ram_page = ram5

\* ------------------------------------------------------------------------
\* The decoding of the paging port.

\* RAM page k and ROM page k, by their numbers on the port.
RamPageOf(k) ==
    CASE k = 0 -> ram0 [] k = 1 -> ram1 [] k = 2 -> ram2 [] k = 3 -> ram3
      [] k = 4 -> ram4 [] k = 5 -> ram5 [] k = 6 -> ram6 [] k = 7 -> ram7

RomPageOf(k) == IF k = 0 THEN rom0 ELSE rom1

\* C19: an output cycle of a 128K machine with the lock open, to a port with
\* (addr & 0x8002) = 0, selects RAM page (n & 7) and ROM page ((n >> 4) & 1),
\* the shadow screen by bit 3 and the lock by bit 5 of the value; 0xff as the
\* first output of a new machine gives RAM 7, ROM 1, the shadow screen and the
\* lock; an output cycle of a 48K machine, or to a port with
\* (addr & 0x8002) # 0, changes none of the four.
C19_PortDecoding ==
    /\ []((/\ model = "spectrum_128"
            /\ Len(watch.outs) = 1
            /\ addr_and_8002(watch.outs[1][1]) = 0
            /\ watch.outs[1][2] = 255)
           => /\ ram_page = ram7 /\ rom_page = rom1
              /\ shadow_screen /\ ignore_7ffd_port_writes)
    /\ [][IsOutput =>
            /\ (/\ model = "spectrum_128"
                /\ ~ignore_7ffd_port_writes
                /\ addr_and_8002(OutAddr) = 0)
               => /\ ram_page' = RamPageOf(OutVal % 8)
                  /\ rom_page' = RomPageOf((OutVal \div 16) % 2)
                  /\ shadow_screen' = ((OutVal \div 8) % 2 = 1)
                  /\ ignore_7ffd_port_writes' = ((OutVal \div 32) % 2 = 1)
            /\ (model = "spectrum_48" \/ addr_and_8002(OutAddr) # 0)
               => UNCHANGED <<ram_page, rom_page, shadow_screen,
                              ignore_7ffd_port_writes>>]_vars

\* A new 128K machine after 0xff to port 0x7ffd: RAM 7, ROM 1, the shadow
\* screen, locked.
C19_Witness ==
    /\ model = "spectrum_128"
    /\ watch.outs # <<>>
    /\ watch.outs[1][1] = 32765 /\ watch.outs[1][2] = 255
    /\ num_port_writes = 1
    /\ ram_page = ram7 /\ rom_page = rom1
    /\ shadow_screen /\ ignore_7ffd_port_writes

\* ------------------------------------------------------------------------
\* The specification of the memory contention: instructions of a 48K and of
\* a 128K machine that fetch, read and write inside and outside
\* [0x4000, 0x8000), beginning around the first contended tick, around the
\* end of the contended part of a line, at the end of a line, within the last
\* screen line and around the end of the contended part of the frame.  The
\* beam has followed the processor up to the start: the machine has come
\* there by write cycles to the ROM between which the host moved
\* ticks_since_int on.

ContOps == 4

\* The start ticks, counted from the first contended tick of a frame.
ContOffsets(mdl) ==
    LET ticks_per_line == get_ticks_per_line(mdl)
    IN  << -4, -1, 0, 3, 121, ticks_per_line - 5,
           191 * ticks_per_line + 120,
           192 * ticks_per_line - 4, 192 * ticks_per_line - 1 >>

ContAddrs == {16383, 16384, 32767, 32768}

ContBytes == {0}

\* PC at the start: in the contended RAM and above it.
ContPCs == {16384, 32768}

\* The machines m comes to by a write cycle to address 0 that ends at tick
\* cont_base + offs[i], then at cont_base + offs[i + 1], and so on.
RECURSIVE ContChain(_, _, _)
ContChain(m, offs, i) ==
    IF i > Len(offs) THEN {}
    ELSE LET t == get_cont_base(m.model) + offs[i]
             s == on_write_cycle([m EXCEPT !.ticks_since_int = t - 3], 0, 0)
         IN  IF s.ticks_since_int = t THEN {s} \cup ContChain(s, offs, i + 1)
             ELSE {}

ContStarts(pcs) ==
    UNION { { [s EXCEPT !.pc = p] : s \in ContChain(Fresh(mdl, 0, 7, 0),
                                                     ContOffsets(mdl), 1) }
            : mdl \in Models, p \in pcs }

InitContention == \E m \in ContStarts(ContPCs) : InitM(m, ContOps)

ContFetch ==
    /\ ctl = "step" /\ cycles = 0
    /\ Bus([on_m1_fetch_cycle(M) EXCEPT
              !.watch.access = <<"fetch", pc, ticks_since_int>>])

ContRead(A) ==
    /\ InCycle
    /\ \E a \in A :
          Bus([on_read_cycle(M, a) EXCEPT
                 !.watch.access = <<"read", a, ticks_since_int>>])

ContWrite(A, V) ==
    /\ InCycle
    /\ \E a \in A, n \in V :
          Bus([on_write_cycle(M, a, n) EXCEPT
                 !.watch.access = <<"write", a, ticks_since_int>>])

NextContention ==
    \/ RunEnter
    \/ Step
    \/ StepReturn
    \/ ContFetch
    \/ ContRead(ContAddrs)
    \/ ContWrite(ContAddrs, ContBytes)

SpecContention == InitContention /\ [][NextContention]_vars

\* The delay of an access at address a that starts at tick t, as C20 gives
\* it.
AccessDelay(mdl, a, t) ==
    LET cont_base == IF mdl = "spectrum_48" THEN 14336 ELSE 14362
        ticks_per_line == IF mdl = "spectrum_48" THEN 224 ELSE 228
        u == (t - cont_base) % ticks_per_line
    IN  IF a < 16384 \/ a >= 32768 THEN 0
        ELSE IF t < cont_base \/ t >= cont_base + 192 * ticks_per_line THEN 0
        ELSE IF u >= 128 THEN 0
        ELSE IF u % 8 = 7 THEN 0
        ELSE 6 - (u % 8)

\* The ticks of the bus transaction itself.
AccessTicks(kind) == IF kind = "fetch" THEN 4 ELSE 3

IsAccess == watch.access' # watch.access

\* C20: a fetch, a read or a write at address A that starts at tick t ends at
\* t plus the delay C20 gives for A and t plus the ticks of the transaction;
\* the delay is that of the tick the access starts at, the transaction's own
\* ticks coming after it.
C20_ContentionDelay ==
    [][IsAccess =>
          LET kind == watch.access'[1]
              a == watch.access'[2]
              t == watch.access'[3]
          IN  /\ t = ticks_since_int
              /\ ticks_since_int' =
                     t + AccessDelay(model, a, t) + AccessTicks(kind)]_vars

\* A read of 0x4000 on a 48K machine that started at the first contended
\* tick, after a fetch outside the contended RAM, and ended nine ticks later.
C20_Witness ==
    /\ model = "spectrum_48"
    /\ watch.access = <<"read", 16384, 14336>>
    /\ ticks_since_int = 14336 + 6 + 3

\* ------------------------------------------------------------------------
\* The specification of a sequence of loads: LD A, (HL) instructions, an
\* opcode fetch and a read each, with PC in the contended RAM and HL in it or
\* above it, beginning at or just before the first contended tick.

LoadInstrs == 16

LoadOps == 2 * LoadInstrs

LoadStarts ==
    { [Fresh(mdl, 0, 7, t) EXCEPT !.pc = 16384, !.watch.loads = <<t, 0, 0>>] :
        mdl \in Models,
        t \in {get_cont_base("spectrum_48") - 3, get_cont_base("spectrum_48")} }

\* HL: in the contended RAM, above it.
LoadAddrs == {16384, 32768}

InitLoads == \E m \in LoadStarts : InitM(m, LoadOps)

LoadFetch ==
    /\ ctl = "step" /\ cycles = 0
    /\ Bus([on_m1_fetch_cycle(M) EXCEPT
              !.watch.loads =
                  <<@[1], @[2] + AccessTicks("fetch"),
                    @[3] + AccessDelay(model, pc, ticks_since_int)>>])

LoadRead(A) ==
    /\ ctl = "step" /\ cycles = 1
    /\ \E a \in A :
          Bus([on_read_cycle(M, a) EXCEPT
                 !.watch.loads =
                     <<@[1], @[2] + AccessTicks("read"),
                       @[3] + AccessDelay(model, a, ticks_since_int)>>])

LoadReturn == cycles = 2 /\ StepReturn

NextLoads ==
    \/ RunEnter
    \/ Step
    \/ LoadFetch
    \/ LoadRead(LoadAddrs)
    \/ LoadReturn

SpecLoads == InitLoads /\ [][NextLoads]_vars

\* C21: after every access of the sequence ticks_since_int is the tick the
\* sequence began at plus the uncontended ticks of the cycles made, four a
\* fetch and three a read, plus the delays of the contention table, each
\* taken at the tick its access began at.
C21_ContendedSequence ==
    ticks_since_int = watch.loads[1] + watch.loads[2] + watch.loads[3]

\* Sixteen loads of a 48K machine from tick 14336, all with HL = 0x4000: 112
\* ticks of cycles; 6 + 4 ticks of delay in the first load and 5 + 4 in each
\* of the next seven, the rest falling into the uncontended part of the line.
C21_Witness ==
    /\ model = "spectrum_48"
    /\ watch.loads = <<14336, 16 * 7, 10 + 7 * 9>>
    /\ pc = 16384 + 16
    /\ ctl = "loop"
    /\ ticks_since_int = 14336 + 112 + 73

\* ------------------------------------------------------------------------
\* The specification of the port cycles: instructions of a 48K and of a 128K
\* machine that make input and output cycles to ports inside and outside
\* [0x4000, 0x8000), even and odd, beginning around the first contended tick
\* and at the end of the contended part of a line; the beam has followed the
\* processor up to the start, as in SpecContention.

PortOps == 4

PortOffsets == << -4, -1, 0, 3, 121 >>

\* Outside and even: 0x00fe, 0x00fc; outside and odd: 0x00ff, 0xbffd; inside
\* and even: 0x40fe, 0x4000; inside and odd: 0x7ffd, 0x4001.
PortAddrs == {254, 252, 255, 49149, 16638, 16384, 32765, 16385}

PortBytes == {0}

PortStarts(offs) ==
    UNION { ContChain(Fresh(mdl, 0, 7, 0), offs, 1) : mdl \in Models }

InitPorts == \E m \in PortStarts(PortOffsets) : InitM(m, PortOps)

PortFetch == cycles = 0 /\ M1FetchCycle

\* An input cycle the host answers with a byte.
PortIn(A) ==
    /\ InCycle
    /\ \E a \in A :
          Bus([on_input_cycle(M, a, FALSE) EXCEPT
                 !.watch.access = <<"in", a, ticks_since_int>>])

PortOut(A, V) ==
    /\ InCycle
    /\ \E a \in A, n \in V :
          Bus([on_output_cycle(M, a, n) EXCEPT
                 !.watch.access = <<"out", a, ticks_since_int>>])

NextPorts ==
    \/ RunEnter
    \/ Step
    \/ StepReturn
    \/ PortFetch
    \/ PortIn(PortAddrs)
    \/ PortOut(PortAddrs, PortBytes)

SpecPorts == InitPorts /\ [][NextPorts]_vars

\* contend: the tick after the delay the contention table gives at tick t.
Contend(mdl, t) == t + AccessDelay(mdl, 16384, t)

\* The tick a port cycle ends at that begins at tick t at address a, as C22
\* gives the four patterns.
PortEnd(mdl, a, t) ==
    IF a < 16384 \/ a >= 32768
    THEN IF a % 2 = 0 THEN Contend(mdl, t + 1) + 3
         ELSE t + 4
    ELSE IF a % 2 = 0 THEN Contend(mdl, Contend(mdl, t) + 1) + 3
         ELSE Contend(mdl,
                  Contend(mdl,
                      Contend(mdl, Contend(mdl, t) + 1) + 1) + 1) + 1

\* The delays of the pattern: those of one, two or four calls of contend.
PortDelays(mdl, a, t) == PortEnd(mdl, a, t) - t - 4

\* C22: an input cycle and an output cycle at address A that begin at tick t
\* end at the tick the pattern of A gives, which is t + 4 plus the delays of
\* its contends, none for an odd port outside [0x4000, 0x8000).
C22_PortPatterns ==
    [][(IsAccess /\ watch.access'[1] \in {"in", "out"}) =>
          LET a == watch.access'[2]
              t == watch.access'[3]
          IN  /\ t = ticks_since_int
              /\ ticks_since_int' = PortEnd(model, a, t)
              /\ ticks_since_int' = t + 4 + PortDelays(model, a, t)
              /\ PortDelays(model, a, t) >= 0
              /\ (a % 2 = 1 /\ (a < 16384 \/ a >= 32768))
                     => ticks_since_int' = t + 4]_vars

\* An input cycle at 0x4001 on a 48K machine that began at tick 14336:
\* delays of 6, 0, 6 and 0 ticks before its four ticks.
C22_Witness ==
    /\ model = "spectrum_48"
    /\ watch.access = <<"in", 16385, 14336>>
    /\ ticks_since_int = 14336 + 4 + 12

\* ------------------------------------------------------------------------
\* The specification of the renderer calls: render_screen_to_tick() called
\* with end ticks behind, at and ahead of render_tick, around the tick at
\* which the beam of a 48K machine enters the first screen line, between
\* instructions that write to the screen.

RenderOps == 4

\* The end ticks, counted from the first contended tick of a frame.
RenderEnds == {-8, -6, 0, 4, 8, 24}

RenderFills == {165}

RenderBytes == {90}

RenderStarts(fills) ==
    UNION { ContChain(Fresh(mdl, f, 7, 0), << -4 >>, 1) :
              mdl \in Models, f \in fills }

InitRender == \E m \in RenderStarts(RenderFills) : InitM(m, RenderOps)

RenderTo(E) ==
    /\ budget > 0
    /\ \E e \in E :
          LET T == get_cont_base(model) + e
          IN  SetM([render_screen_to_tick(M, T) EXCEPT
                      !.watch.renders = Append(@, T)])
    /\ budget' = budget - 1
    /\ UNCHANGED <<ctl, cycles, ret>>

RenderFetch == cycles = 0 /\ M1FetchCycle

NextRender ==
    \/ RunEnter
    \/ Step
    \/ StepReturn
    \/ RenderFetch
    \/ WriteCycle(ScreenAddrs, RenderBytes)
    \/ RenderTo(RenderEnds)

SpecRender == InitRender /\ [][NextRender]_vars

IsRender == Len(watch.renders') = Len(watch.renders) + 1

RenderEnd == watch.renders'[Len(watch.renders')]

\* C23: a call of render_screen_to_tick(T) leaves render_tick at the greater
\* of its old value and T; with T <= render_tick it changes nothing of the
\* chunk buffer, render_tick and the latches; and a second call with the same
\* T right after it changes nothing of the machine.
C23_RenderIdempotent ==
    [][IsRender =>
          /\ render_tick' = (IF render_tick >= RenderEnd THEN render_tick
                             ELSE RenderEnd)
          /\ RenderEnd <= render_tick =>
                 UNCHANGED <<screen_chunks, render_tick, latched_border_colour,
                             latched_pixel_pattern, latched_colour_attrs,
                             latched_pixel_pattern2, latched_colour_attrs2>>
          /\ render_screen_to_tick(M', RenderEnd) = M'
          /\ UNCHANGED <<ticks_since_int, bytes, border_colour>>]_vars

\* Two calls in a row with the tick eight past the first contended tick of a
\* 48K machine, the first of which took the beam into the screen area and
\* latched the pattern and the attributes.
C23_Witness ==
    /\ model = "spectrum_48"
    /\ watch.renders = <<14344, 14344>>
    /\ render_tick = 14344
    /\ latched_pixel_pattern = 165 * 257
    /\ latched_colour_attrs2 = 165 * 257
    /\ screen_chunks[48] # NoLine

\* ------------------------------------------------------------------------
\* The packed state of machine_emulator.  The flags of the packed state are
\* bytes and those of the machine booleans; the border colour is a byte in
\* the packed state and an unsigned in the machine; PC is installed through
\* set_pc(), the accessor of the register that on_set_pc() ends in.  The
\* tick counter and the fetch budget are 32 bits wide in the packed state,
\* and below 2^31 in every state here.

get_processor_state(m) ==
    [bc |-> m.proc.bc, de |-> m.proc.de, hl |-> m.proc.hl, af |-> m.proc.af,
     ix |-> m.proc.ix, iy |-> m.proc.iy,
     alt_bc |-> m.proc.alt_bc, alt_de |-> m.proc.alt_de,
     alt_hl |-> m.proc.alt_hl, alt_af |-> m.proc.alt_af,
     pc |-> m.pc, sp |-> m.proc.sp, ir |-> m.proc.ir, wz |-> m.proc.wz,
     iff1 |-> IF m.proc.iff1 THEN 1 ELSE 0,
     iff2 |-> IF m.proc.iff2 THEN 1 ELSE 0,
     int_mode |-> m.proc.int_mode % 256,
     index_rp_kind |-> m.proc.iregp_kind % 256]

set_processor_state(m, state) ==
    [m EXCEPT
        !.pc = state.pc,
        !.proc = [bc |-> state.bc, de |-> state.de, hl |-> state.hl,
                  af |-> state.af, ix |-> state.ix, iy |-> state.iy,
                  alt_bc |-> state.alt_bc, alt_de |-> state.alt_de,
                  alt_hl |-> state.alt_hl, alt_af |-> state.alt_af,
                  sp |-> state.sp, ir |-> state.ir, wz |-> state.wz,
                  iff1 |-> state.iff1 # 0, iff2 |-> state.iff2 # 0,
                  int_mode |-> state.int_mode,
                  iregp_kind |-> state.index_rp_kind]]

retrieve_state(m) ==
    [proc |-> get_processor_state(m),
     ticks_since_int |-> m.ticks_since_int,
     fetches_to_stop |-> m.fetches_to_stop,
     int_suppressed |-> IF m.int_suppressed THEN 1 ELSE 0,
     int_after_ei_allowed |-> IF m.int_after_ei_allowed THEN 1 ELSE 0,
     border_color |-> m.border_colour % 256,
     trace_enabled |-> IF m.trace_enabled THEN 1 ELSE 0]

\* install_state() that leaves int_after_ei_allowed as it is.
install_state_without_ei(m, state) ==
    [set_processor_state(m, state.proc) EXCEPT
        !.ticks_since_int = state.ticks_since_int,
        !.fetches_to_stop = state.fetches_to_stop,
        !.int_suppressed = (state.int_suppressed # 0),
        !.border_colour = state.border_color,
        !.trace_enabled = (state.trace_enabled # 0)]

install_state(m, state) ==
    [set_processor_state(m, state.proc) EXCEPT
        !.ticks_since_int = state.ticks_since_int,
        !.fetches_to_stop = state.fetches_to_stop,
        !.int_suppressed = (state.int_suppressed # 0),
        !.int_after_ei_allowed = (state.int_after_ei_allowed # 0),
        !.border_colour = state.border_color,
        !.trace_enabled = (state.trace_enabled # 0)]

\* ------------------------------------------------------------------------
\* The specification of the packed state: the host takes the state the
\* machine retrieved, writes registers, flags, modes, the tick counter, the
\* fetch budget and the border colour into it, and has it installed and
\* retrieved again; between that the machine runs instructions that change
\* the border colour.

StateOps == 4

\* IFF1, IFF2, int_suppressed, int_after_ei_allowed, trace_enabled.
StateFlags == { <<0, 0, 0, 0, 0>>, <<1, 1, 1, 1, 1>>,
                <<1, 0, 1, 0, 1>>, <<0, 1, 0, 1, 0>> }

\* The interrupt mode and the index register pair (hl = 0, ix = 1, iy = 2).
StateModes == { <<0, 0>>, <<1, 2>>, <<2, 1>> }

\* The registers: all zero, or a value of its own in each.
StateRegs == {0, 1}

\* Ticks added to the counter, the fetch budget, the border colour.
StateEdits == { <<0, 0, 7>>, <<8, 1, 2>> }

\* The packed states the host makes of the retrieved state r.
HostStates(r) ==
    { [proc |->
          [bc |-> k * 4097, de |-> k * 8194, hl |-> k * 12291,
           af |-> k * 16388, ix |-> k * 20485, iy |-> k * 24582,
           alt_bc |-> k * 28679, alt_de |-> k * 32776, alt_hl |-> k * 36873,
           alt_af |-> k * 40970, pc |-> k * 16384, sp |-> k * 49164,
           ir |-> k * 53261, wz |-> k * 65535,
           iff1 |-> f[1], iff2 |-> f[2],
           int_mode |-> md[1], index_rp_kind |-> md[2]],
       ticks_since_int |-> r.ticks_since_int + e[1],
       fetches_to_stop |-> e[2],
       int_suppressed |-> f[3],
       int_after_ei_allowed |-> f[4],
       border_color |-> e[3],
       trace_enabled |-> f[5]] :
        k \in StateRegs, f \in StateFlags, md \in StateModes,
        e \in StateEdits }

StateStarts == { Fresh("spectrum_48", 0, 7, JournalTick) }

InitState == \E m \in StateStarts : InitM(m, StateOps)

\* install_state() with a state of the host and retrieve_state() right after.
HostRoundTrip ==
    \E S \in HostStates(retrieve_state(M)) :
        LET m == install_state(M, S)
        IN  Host([m EXCEPT !.watch.packed = <<S, retrieve_state(m)>>,
                           !.watch.fts_n = S.fetches_to_stop,
                           !.watch.m1_count = 0])

StateFetch == cycles = 0 /\ M1FetchCycle

NextState ==
    \/ HostRoundTrip
    \/ RunEnter
    \/ Step
    \/ StateFetch
    \/ OutputCycle(BorderPorts, BeamColours)
    \/ StepReturn
    \/ RunReturn

SpecState == InitState /\ [][NextState]_vars

\* C24: the state retrieved right after a packed state S of the host was
\* installed is S, in every field.
C24_InstallRetrieve ==
    watch.packed # <<>> =>
        /\ watch.packed[2] = watch.packed[1]
        /\ \A fld \in DOMAIN watch.packed[1].proc :
              watch.packed[2].proc[fld] = watch.packed[1].proc[fld]

\* After a run() that a fetch budget of one ended, the host installs a state
\* with registers of different values, IFF1 set and IFF2 clear, interrupt
\* mode 2, IX as the index pair, the counter eight ticks on, and gets it back.
C24_Witness ==
    /\ ret # NoRet
    /\ ctl = "idle"
    /\ watch.packed # <<>>
    /\ watch.packed[1].proc.bc = 4097 /\ watch.packed[1].proc.wz = 65535
    /\ watch.packed[1].proc.iff1 = 1 /\ watch.packed[1].proc.iff2 = 0
    /\ watch.packed[1].proc.int_mode = 2
    /\ watch.packed[1].proc.index_rp_kind = 1
    /\ watch.packed[1].int_suppressed = 1
    /\ watch.packed[1].ticks_since_int > JournalTick + 8
    /\ watch.packed[2] = watch.packed[1]
    /\ proc.iff1 /\ ~proc.iff2 /\ int_suppressed /\ ~int_after_ei_allowed
    /\ border_colour = 2 /\ pc = 16384

\* ------------------------------------------------------------------------
\* machine_emulator::on_input.  The answer of the host's callback is a pair
\* of its kind, "integer", "error" (the call fails) or "not_integer", and of
\* the integer; without a callback nothing is called.  The result carries the byte returned in watch.input.

InputRefusals == {"error", "not_integer"}

\* on_input() that takes a value that is no integer for the default.
machine_on_input_lenient(m, addr, answer) ==
    LET t == m.ticks_since_int
    IN  IF ~m.watch.callback
        THEN [m EXCEPT !.watch.input = <<addr, t, answer, 191>>]
        ELSE IF answer[1] = "error"
        THEN [stop(m) EXCEPT !.watch.input = <<addr, t, answer, 191>>]
        ELSE IF answer[1] = "not_integer"
        THEN [m EXCEPT !.watch.input = <<addr, t, answer, 191>>]
        ELSE [m EXCEPT !.watch.input = <<addr, t, answer, answer[2] % 256>>]

machine_on_input(m, addr, answer) ==
    LET t == m.ticks_since_int
    IN  IF ~m.watch.callback
        THEN [m EXCEPT !.watch.input = <<addr, t, answer, 191>>]
        ELSE IF answer[1] \in InputRefusals
        THEN [stop(m) EXCEPT !.watch.input = <<addr, t, answer, 191>>]
        ELSE [m EXCEPT !.watch.input = <<addr, t, answer, answer[2] % 256>>]

\* spectrum::on_input_cycle with the on_input of machine_emulator.
machine_on_input_cycle(m, addr, answer) ==
    machine_on_input(handle_port_contention(m, addr), addr, answer)

\* ------------------------------------------------------------------------
\* The specification of the input cycles: instructions of a 48K machine that
\* read ports, with and without a callback of the host, which answers with a
\* byte, with an integer above 255, or refuses.

InputOps == 4

InputPorts == {254, 16385}

\* 447 = 0x1bf.
InputAnswers ==
    {<<"error", 0>>, <<"not_integer", 0>>, <<"integer", 0>>,
     <<"integer", 447>>}

InputStarts ==
    { [Fresh("spectrum_48", 0, 7, JournalTick) EXCEPT !.watch.callback = c] :
        c \in BOOLEAN }

InitInput == \E m \in InputStarts : InitM(m, InputOps)

InputFetch == cycles = 0 /\ M1FetchCycle

InputAnswer(A, V) ==
    /\ InCycle
    /\ \E a \in A, v \in V : Bus(machine_on_input_cycle(M, a, v))

NextInput ==
    \/ RunEnter
    \/ Step
    \/ InputFetch
    \/ InputAnswer(InputPorts, InputAnswers)
    \/ StepReturn
    \/ RunReturn

SpecInput == InitInput /\ [][NextInput]_vars

IsInput == watch.input' # watch.input

\* C25: an input cycle the callback refuses returns 0xbf and latches
\* machine_stopped; without a callback it returns 0xbf and latches nothing;
\* and run(), once the instruction is over and machine_stopped is latched,
\* starts no other instruction and returns a mask with machine_stopped.
C25_InputRefused ==
    /\ [][IsInput =>
            /\ ~watch.callback =>
                   watch.input'[4] = 191 /\ events' = events
            /\ (watch.callback /\ watch.input'[3][1] \in InputRefusals) =>
                   /\ watch.input'[4] = 191
                   /\ events' = events \cup {"machine_stopped"}]_vars
    /\ [][("machine_stopped" \in events /\ ctl = "loop") =>
            (ctl' = "idle" /\ "machine_stopped" \in ret')]_vars
    /\ []((ctl = "idle" /\ watch.stopped) => "machine_stopped" \in ret)

\* run() has returned machine_stopped after an instruction whose first input
\* cycle the callback refused; the decoder made one more input cycle after
\* it, which the callback answered with 0x1bf and which returned 0xbf.
C25_Witness ==
    /\ watch.callback
    /\ ctl = "idle"
    /\ "machine_stopped" \in ret
    /\ watch.input # <<>>
    /\ watch.input[3] = <<"integer", 447>>
    /\ watch.input[4] = 191
    /\ watch.after_stop
    /\ budget = InputOps - 3

\* ------------------------------------------------------------------------
\* The specification of the latches over a frame start: machines whose frame
\* has come to its end and has been rendered by the host, so that the
\* latches hold what the beam captured last; run() then starts the next
\* frame, in which ~INT is active, and executes instructions that fetch and
\* write the border port.

LatchOps == 5

LatchFills == {165}

LatchBorders == {2, 5}

LatchColours == {2, 5}

LatchFetches == 2

\* run() has returned end_of_frame one tick into the next frame, and the
\* host has called render_screen().
LatchFrames(borders) ==
    { render_screen(Fresh(mdl, fill, bc, get_ticks_per_frame(mdl) + 1)) :
        mdl \in {"spectrum_48", "spectrum_128"}, fill \in LatchFills,
        bc \in borders }

\* The host then installs a fetch budget, with or without int_suppressed.
LatchStarts(borders) ==
    { [m EXCEPT !.int_suppressed = s, !.fetches_to_stop = LatchFetches,
                !.watch.fts_n = LatchFetches, !.watch.m1_count = 0] :
        m \in LatchFrames(borders), s \in BOOLEAN }

InitLatches == \E m \in LatchStarts(LatchBorders) : InitM(m, LatchOps)

NextLatches ==
    \/ RunEnter
    \/ HandleActiveInt
    \/ IntReturn
    \/ Step
    \/ OpcodeFetch
    \/ OutputCycle(BorderPorts, LatchColours)
    \/ StepReturn
    \/ RunReturn

SpecLatches == InitLatches /\ [][NextLatches]_vars

IsFrameStart == frame_counter' = frame_counter + 1

\* The five latches of the beam.
Latches(m) ==
    <<m.latched_border_colour, m.latched_pixel_pattern,
      m.latched_colour_attrs, m.latched_pixel_pattern2,
      m.latched_colour_attrs2>>

\* The machine with the latches as they are constructed.
Unlatched(m) ==
    [m EXCEPT !.latched_border_colour = 0, !.latched_pixel_pattern = 0,
              !.latched_colour_attrs = 0, !.latched_pixel_pattern2 = 0,
              !.latched_colour_attrs2 = 0]

\* C26, as the specification states it: right after start_new_frame the
\* latched border colour, the latched pixel patterns and colour attributes
\* and their second copies hold 0, the value they are constructed with.
C26_Original ==
    [][IsFrameStart => Latches(M') = Latches(Unlatched(M'))]_vars

\* C26, as the code has it: start_new_frame leaves the five latches as the
\* previous frame left them, and the frame rendered from there is the frame
\* rendered from latches of 0: each latch is captured again before a pixel
\* is painted from it.
C26_LatchesKept ==
    [][IsFrameStart =>
          /\ Latches(M') = Latches(M)
          /\ render_screen(M').screen_chunks
                 = render_screen(Unlatched(M')).screen_chunks]_vars

\* A frame has started on a 48K machine with the border colour and the
\* screen bytes of the frame before in the latches, and an instruction of
\* the new frame has been fetched.
C26_Witness ==
    /\ model = "spectrum_48"
    /\ frame_counter = 1
    /\ Latches(M) = <<2, 42405, 42405, 42405, 42405>>
    /\ watch.m1_count = 1
    /\ ctl = "step"

\* ------------------------------------------------------------------------
\* The specification of the screen switch: a 128K machine with page 7 at
\* 0xc000 and the colour attribute of the ninth cell of page 7 written, so
\* that the two screens differ in that cell; the beam has been brought to the
\* first tick of the first line of the screen, or to its fourth cell, by a
\* write cycle, and the instructions that follow fetch and write the border
\* and the paging ports.

ShadowOps == 5

ShadowFetches == 3

\* 0x7ffd and 0xfe.
ShadowPorts == {32765, 254}

\* Page 7 with the normal and with the shadow screen.
ShadowVals == {7, 15}

\* The colour attribute of the ninth cell of the first line of the screen,
\* with page 7 at 0xc000; the beam captures it at tick 14592 + 4 * 8.
ShadowAttrAddr == 49152 + 6144 + 8

\* White paper, black ink.
ShadowAttr == 56

\* From cont_base to the first tick of the frame line 64 and to the fourth
\* cell of that line.
ShadowOffsets == << 14572 - 14362, 14620 - 14362 >>

ShadowStarts(offs) ==
    LET m0 == Fresh("spectrum_128", 0, 7, 40)
        m1 == [on_output_cycle(m0, 32765, 7) EXCEPT
                  !.watch.outs = Append(@, <<32765, 7, 0, 40>>)]
        m2 == on_write_cycle(m1, ShadowAttrAddr, ShadowAttr)
    IN  { [m EXCEPT !.fetches_to_stop = ShadowFetches,
                    !.watch.fts_n = ShadowFetches, !.watch.m1_count = 0] :
            m \in ContChain(m2, offs, 1) }

InitShadow == \E m \in ShadowStarts(ShadowOffsets) : InitM(m, ShadowOps)

ShadowFetch == cycles = 0 /\ M1FetchCycle

NextShadow ==
    \/ RunEnter
    \/ Step
    \/ ShadowFetch
    \/ OutputCycle(ShadowPorts, ShadowVals)
    \/ StepReturn
    \/ RunReturn

SpecShadow == InitShadow /\ [][NextShadow]_vars

\* C27: an output cycle entered at tick t that changes shadow_screen leaves
\* every pixel the beam paints up to tick t as it was: the frame rendered up
\* to t + 1 after the cycle is the frame rendered up to t + 1 before it.
C27_RenderedBeforeChange ==
    [][(IsOutput /\ shadow_screen' # shadow_screen) =>
          render_screen_to_tick(M', ticks_since_int + 1).screen_chunks
             = render_screen_to_tick(M, ticks_since_int + 1).screen_chunks]_vars

\* ------------------------------------------------------------------------
\* The specification of the interrupt window: machines of both models the
\* host has given a tick counter at or near the first ticks of the frame, a
\* fetch budget and int_suppressed set or clear; run() executes instructions
\* of one opcode fetch, with or without a write cycle after it, and
\* on_handle_active_int() makes a write cycle or none.

IntOps == 12

IntFetches == 9

IntTicks == {0, 1, 31}

IntAddrs == {32768}

IntBytes == {0}

IntStarts ==
    { [Fresh(mdl, 0, 7, t) EXCEPT
          !.int_suppressed = s, !.fetches_to_stop = IntFetches,
          !.watch.fts_n = IntFetches, !.watch.m1_count = 0] :
        mdl \in Models, t \in IntTicks, s \in BOOLEAN }

InitInt == \E m \in IntStarts : InitM(m, IntOps)

NextInt ==
    \/ RunEnter
    \/ HandleActiveInt
    \/ IntReturn
    \/ Step
    \/ OpcodeFetch
    \/ WriteCycle(IntAddrs, IntBytes)
    \/ StepReturn
    \/ RunReturn

SpecInt == InitInt /\ [][NextInt]_vars

\* C28: when run() goes from the loop test to an instruction, it calls
\* on_handle_active_int() first exactly when int_suppressed is clear and
\* ticks_since_int is in 1..32; at 0, above 32 and with int_suppressed set it
\* calls on_step() at once; and on_handle_active_int() is called from
\* nowhere else.
C28_IntWindow ==
    [][/\ (ctl = "loop" /\ ctl' \in {"int", "step"}) =>
             (ctl' = "int" <=>
                 (~int_suppressed /\ ticks_since_int \in 1 .. 32))
       /\ (ctl' = "int" /\ ctl # "int") => ctl = "loop"]_vars

\* run() entered at tick 0 has executed eight instructions of four ticks and
\* is in on_handle_active_int() at tick 32, the last tick it is offered at.
C28_Witness ==
    /\ ctl = "int"
    /\ ~int_suppressed
    /\ ticks_since_int = 32
    /\ watch.m1_count = 8

\* ------------------------------------------------------------------------
\* The specification of the test loop of the X11 front end,
\*     while(emu.get_ticks() < 1000) emu.on_step();
\* on a new 48K machine whose memory is all 0: the decoder fetches the opcode
\* at PC and, the opcode being 0 (NOP), makes no other cycle.

TestTicks == 1000

\* One opcode fetch for every four ticks, and one more.
NopOps == TestTicks \div 4 + 1

InitNops == InitM(Fresh("spectrum_48", 0, 7, 0), NopOps)

\* main() enters the loop.
TestEnter ==
    /\ ctl = "idle"
    /\ ctl' = "test"
    /\ UNCHANGED <<machine_vars, cycles, budget, ret, hist, watch>>

\* The loop test holds: on_step() is called.
TestStep ==
    /\ ctl = "test"
    /\ ticks_since_int < TestTicks
    /\ SetM([on_step(M) EXCEPT !.watch.step_ticks = ticks_since_int])
    /\ ctl' = "step"
    /\ cycles' = 0
    /\ UNCHANGED <<budget, ret>>

\* The opcode fetch of a NOP.
NopFetch ==
    /\ cycles = 0
    /\ on_read(M, pc) = 0
    /\ M1FetchCycle

\* The NOP is over after its fetch: on_step() returns to the loop.
TestStepReturn ==
    /\ ctl = "step"
    /\ cycles = 1
    /\ ctl' = "test"
    /\ UNCHANGED <<machine_vars, cycles, budget, ret, hist, watch>>

\* The loop test fails: main() prints the tick and returns.
TestExit ==
    /\ ctl = "test"
    /\ ticks_since_int >= TestTicks
    /\ ctl' = "exit"
    /\ UNCHANGED <<machine_vars, cycles, budget, ret, hist, watch>>

NextNops ==
    \/ TestEnter
    \/ TestStep
    \/ NopFetch
    \/ TestStepReturn
    \/ TestExit

SpecNops == InitNops /\ [][NextNops]_vars

\* C29: between the instructions and at the end of the loop PC is
\* (ticks_since_int / 4) mod 0x10000; ticks_since_int never decreases; the
\* loop ends with ticks_since_int in 1000..1011 and without end_of_frame.
C29_NopRun ==
    /\ [](ctl \in {"test", "exit"} =>
             pc = (ticks_since_int \div 4) % 65536)
    /\ [][ticks_since_int' >= ticks_since_int]_vars
    /\ [](ctl = "exit" =>
             /\ ticks_since_int \in 1000 .. 1011
             /\ "end_of_frame" \notin events)

\* The loop has ended at tick 1000 after 250 NOPs, every one of them marked
\* as visited.
C29_Witness ==
    /\ ctl = "exit"
    /\ ticks_since_int = 1000
    /\ pc = 250
    /\ watch.m1_count = 250
    /\ is_marked_addr(M, 249, visited_instr_mark)

\* ------------------------------------------------------------------------
\* The specification of the marks: the host calls mark_addrs between run()
\* calls, with ranges that overlap and that wrap at 0xffff, and run()
\* executes instructions over a frame end, so that marks are set by the
\* host and by on_step() on top of one another and a frame starts with marks
\* in the table.

MarkOps == 4

\* The mark_addrs calls of the host.
MarkCalls == 2

MarkAddrs == {65535, 0}

MarkSizes == {0, 1, 2}

\* The breakpoint mark, the visited-instruction mark, and another bit.
MarkBits == {breakpoint_mark, visited_instr_mark, 2}

MarkJumps == {65535}

MarkStarts ==
    { Fresh(mdl, 0, 7, get_ticks_per_frame(mdl) - 3) : mdl \in Models }

InitMarks == \E m \in MarkStarts : InitM(m, MarkOps)

\* watch.marked is the last call and the number of calls made.
HostMarks(A, S, K) ==
    /\ IF watch.marked = <<>> THEN TRUE ELSE watch.marked[4] < MarkCalls
    /\ \E a \in A, size \in S, marks \in K :
          Host([mark_addrs(M, a, size, marks) EXCEPT
                   !.watch.marked =
                       <<a, size, marks, IF @ = <<>> THEN 1 ELSE @[4] + 1>>])

NextMarks ==
    \/ HostMarks(MarkAddrs, MarkSizes, MarkBits)
    \/ RunEnter
    \/ HandleActiveInt
    \/ IntReturn
    \/ Step
    \/ OpcodeFetch
    \/ SetPc(MarkJumps)
    \/ StepReturn
    \/ RunReturn

SpecMarks == InitMarks /\ [][NextMarks]_vars

IsMarking == watch.marked' # watch.marked

\* The addresses the last mark_addrs call of the step names.
MarkedRange ==
    { (watch.marked'[1] + i) % 65536 : i \in 0 .. watch.marked'[2] - 1 }

MarkedBits == watch.marked'[3]

\* C30: no step clears a bit of a mark; mark_addrs ors the bits given into
\* the marks of the addresses (addr + i) & 0xffff, 0 <= i < size, and leaves
\* every other mark as it is; on_step adds the visited-instruction mark at
\* PC; and an address that is_breakpoint_addr reports stays reported.
C30_MarksPersist ==
    [][/\ \A a \in DOMAIN memory_marks :
             /\ marks_and(marks_at(memory_marks', a), memory_marks[a])
                    = memory_marks[a]
             /\ is_breakpoint_addr(M, a) => is_breakpoint_addr(M', a)
       /\ IsMarking =>
             \A a \in DOMAIN memory_marks \cup DOMAIN memory_marks'
                         \cup MarkedRange :
                 marks_at(memory_marks', a) =
                     IF a \in MarkedRange
                     THEN marks_or(marks_at(memory_marks, a), MarkedBits)
                     ELSE marks_at(memory_marks, a)
       /\ (ctl # "step" /\ ctl' = "step") =>
             /\ is_marked_addr(M', pc, visited_instr_mark)
             /\ \A a \in DOMAIN memory_marks' \ {pc} :
                    marks_at(memory_marks', a) = marks_at(memory_marks, a)
       /\ (~IsMarking /\ ~(ctl # "step" /\ ctl' = "step")) =>
             memory_marks' = memory_marks]_vars

\* mark_addrs(0xffff, 2, breakpoint_mark) has set the breakpoint mark at
\* 0xffff and at 0; on_step() has put the visited-instruction mark on top of
\* it at 0; a frame has started since, and both addresses are still reported
\* as breakpoints.
C30_Witness ==
    /\ frame_counter = 1
    /\ ctl = "loop"
    /\ marks_at(memory_marks, 0) = breakpoint_mark + visited_instr_mark
    /\ marks_at(memory_marks, 65535) = breakpoint_mark
    /\ is_breakpoint_addr(M, 0)
    /\ is_breakpoint_addr(M, 65535)

\* ------------------------------------------------------------------------
\* get_frame_pixels and translate_colour.

\* r |= (c & red_mask) << (16 - red_bit), and so on; r is at most 0x010101
\* and the product at most 0xffffff, inside the 32 bits of a pixel.
translate_colour(c) ==
    LET r == (Bit(c, 1) * 2) * 2 ^ 15
               + (Bit(c, 2) * 4) * 2 ^ 6
               + Bit(c, 0)
    IN  r * (IF Bit(c, 3) = 1 THEN 255 ELSE 204)

\* (chunk >> (28 - 4 * k)) & 0xf: pixel k of a chunk, kept as four bytes.
chunk_pixel(chunk, k) ==
    IF k % 2 = 0 THEN chunk[k \div 2 + 1] \div 16
    ELSE chunk[k \div 2 + 1] % 16

\* get_frame_pixels that takes the rightmost pixel of a chunk first.
get_frame_pixels_reversed(m) ==
    [y \in 0 .. frame_height - 1 |->
        [x \in 0 .. frame_width - 1 |->
            translate_colour(
                chunk_pixel(m.screen_chunks[y][x \div pixels_per_frame_chunk],
                            7 - (x % pixels_per_frame_chunk)))]]

\* The image get_frame_pixels writes to the buffer of the caller.
get_frame_pixels(m) ==
    [y \in 0 .. frame_height - 1 |->
        [x \in 0 .. frame_width - 1 |->
            translate_colour(
                chunk_pixel(m.screen_chunks[y][x \div pixels_per_frame_chunk],
                            x % pixels_per_frame_chunk))]]

\* ------------------------------------------------------------------------
\* The specification of the image: machines whose chunk buffer holds one
\* chunk of eight colours, in a corner of the frame; the host changes the
\* border colour, calls get_frame_pixels and looks at pixels of that chunk.

PixelOps == 2

PixelLines == {0, frame_height - 1}

PixelColumns == {0, chunks_per_frame_line - 1}

\* 0x01234567, 0x89abcdef and 0xfedcba98.
PixelChunks == { <<1, 35, 69, 103>>, <<137, 171, 205, 239>>,
                 <<254, 220, 186, 152>> }

PixelBorders == {0, 7}

PixelStarts ==
    { [Fresh("spectrum_48", 0, 7, 0) EXCEPT
          !.screen_chunks[y] = [FreshLine EXCEPT ![c] = ch]] :
        y \in PixelLines, c \in PixelColumns, ch \in PixelChunks }

InitPixels == \E m \in PixelStarts : InitM(m, PixelOps)

\* The chunks that have been assigned.
AssignedChunks(m) ==
    { <<y, c>> \in (0 .. frame_height - 1) \X (0 .. chunks_per_frame_line - 1) :
        /\ m.screen_chunks[y] # NoLine
        /\ \A i \in 1 .. 4 : m.screen_chunks[y][c][i] >= 0 }

\* The host calls get_frame_pixels and reads one pixel of an assigned chunk.
HostGetFramePixels ==
    \E yc \in AssignedChunks(M), k \in 0 .. pixels_per_frame_chunk - 1 :
        LET x == yc[2] * pixels_per_frame_chunk + k
        IN  Host([M EXCEPT !.watch.pixels =
                     <<yc[1], x, get_frame_pixels(M)[yc[1]][x]>>])

\* The host installs another border colour.
HostSetBorder(B) ==
    \E bc \in B : bc # border_colour /\ Host([M EXCEPT !.border_colour = bc])

NextPixels ==
    \/ HostGetFramePixels
    \/ HostSetBorder(PixelBorders)

SpecPixels == InitPixels /\ [][NextPixels]_vars

IsGetPixels == watch.pixels' # watch.pixels

\* The nibble of the chunk buffer the pixel looked at comes from.
PixelNibble ==
    LET chunk == screen_chunks[watch.pixels[1]]
                              [watch.pixels[2] \div pixels_per_frame_chunk]
        k == watch.pixels[2] % pixels_per_frame_chunk
    IN  IF k % 2 = 0 THEN chunk[k \div 2 + 1] \div 16
        ELSE chunk[k \div 2 + 1] % 16

\* The pixel of colour c with the colour bits shifted by hi, mid and lo.
Rgb(c, hi, mid, lo) ==
    (((c \div 2) % 2) * 2 ^ hi + ((c \div 4) % 2) * 2 ^ mid + (c % 2) * 2 ^ lo)
        * (IF c >= 8 THEN 255 ELSE 204)

\* get_frame_pixels looks at the chunk buffer only, and changes nothing.
PixelsPure ==
    /\ [](\A yc \in AssignedChunks(M) :
            LET x == yc[2] * pixels_per_frame_chunk
            IN  get_frame_pixels(M)[yc[1]][x]
                  = get_frame_pixels(
                        [Fresh("spectrum_128", 255, 1, 77) EXCEPT
                            !.screen_chunks = screen_chunks])[yc[1]][x])
    /\ [][IsGetPixels =>
            [M' EXCEPT !.watch = 0] = [M EXCEPT !.watch = 0]]_vars

\* C31, as the specification states it: the pixel is the colour with red at
\* bit 23, green at bit 15 and blue at bit 7, times 0xff or 0xcc.
C31_Original ==
    /\ PixelsPure
    /\ [](watch.pixels # <<>> =>
             watch.pixels[3] = Rgb(PixelNibble, 23, 15, 7))

\* C31, as the code has it: the pixel (y, x) is the translation of nibble
\* x mod 8 of chunk [y][x / 8], the leftmost pixel in the most significant
\* nibble; the red bit goes to bit 16, the green bit to bit 8 and the blue
\* bit to bit 0 before the multiplication by 0xff or 0xcc; the image
\* depends on the chunk buffer only and the call changes no machine state.
C31_FramePixels ==
    /\ PixelsPure
    /\ [](watch.pixels # <<>> =>
             watch.pixels[3] = Rgb(PixelNibble, 16, 8, 0))

\* The host has read the last pixel of the frame, bright white, as 0xffffff
\* after it changed the border colour.
C31_Witness ==
    /\ watch.pixels = <<frame_height - 1, frame_width - 1, 16777215>>
    /\ border_colour = 0
    /\ budget = 0


\* ------------------------------------------------------------------------
\* The border, on both models.  The beam has been brought by write cycles to
\* ROM to the last lines of the screen area and to the bottom border; the
\* program then makes opcode fetches and writes to port 0xfe, run() returns
\* on the fetch budget, and the host calls render_screen().

BorderOps == 4

BorderFetches == 2

BorderColours == {2, 5}

BorderOffsets == <<42790, 45000>>

BorderStarts(offs) ==
    UNION { { [s EXCEPT !.hist = <<>>, !.fetches_to_stop = BorderFetches,
                        !.watch.fts_n = BorderFetches, !.watch.m1_count = 0] :
                s \in ContChain(Fresh(mdl, 165, 7, 0), offs, 1) }
            : mdl \in {"spectrum_48", "spectrum_128"} }

InitBorder == \E m \in BorderStarts(BorderOffsets) : InitM(m, BorderOps)

NextBorder ==
    \/ RunEnter
    \/ Step
    \/ OpcodeFetch
    \/ OutputCycle(BorderPorts, BorderColours)
    \/ StepReturn
    \/ RunReturn
    \/ HostRenderScreen

SpecBorder == InitBorder /\ [][NextBorder]_vars

\* The writes to port 0xfe of the frame, in the order they were made.
BorderWrites == SelectSeq(hist, LAMBDA h : h.op = "border")

\* The border colour the beam samples at render tick s: that of the last
\* write that began before s, or the colour the frame began with.
RECURSIVE ColourSampled(_, _)
ColourSampled(s, i) ==
    IF i = 0
    THEN IF Len(BorderWrites) = 0 THEN border_colour ELSE BorderWrites[1].old
    ELSE IF s >= BorderWrites[i].tick + 1 THEN BorderWrites[i].new
    ELSE ColourSampled(s, i - 1)

\* The chunks of the frame that lie wholly in the border.
BorderChunks ==
    {c \in (0 .. frame_height - 1) \X (0 .. chunks_per_frame_line - 1) :
        \A k \in 0 .. 3 : <<c[1], 4 * c[2] + k>> \in BorderPairs}

\* C32: in the border the colour is sampled at the render ticks divisible by
\* four and both pixels of a tick carry the sampled colour; on both models
\* these ticks are the ticks at which the beam enters an eight-pixel chunk,
\* so that a write to port 0xfe begun at tick t shows from the first chunk
\* entered at a render tick >= t + 1, and in the rendered frame every chunk
\* that lies wholly in the border has one colour in its eight pixels.
C32_BorderChunks ==
    FrameRendered =>
        /\ \A b \in BorderPairs :
              /\ (EmitTick(b) % 4 = 0) <=> (b[2] % 4 = 0)
              /\ ShownPair(b) =
                    17 * ColourSampled(4 * (EmitTick(b) \div 4),
                                       Len(BorderWrites))
        /\ \A c \in BorderChunks :
              \E n \in 0 .. 7 :
                  screen_chunks[c[1]][c[2]] = <<17 * n, 17 * n, 17 * n, 17 * n>>

\* A frame with two writes of different colours to port 0xfe, the first of
\* them begun at a tick that is not divisible by four, rendered to its end.
C32_Witness ==
    /\ FrameRendered
    /\ Len(BorderWrites) = 2
    /\ BorderWrites[1].new # BorderWrites[2].new
    /\ BorderWrites[1].tick % 4 # 3
    /\ \E b \in BorderPairs : ShownPair(b) = 17 * BorderWrites[1].new
    /\ \E b \in BorderPairs : ShownPair(b) = 17 * BorderWrites[2].new

\* ------------------------------------------------------------------------
\* The latches of the screen area, on both models.  The beam has been
\* brought by write cycles to ROM to the sixth tick before the first
\* latch of the first screen line, into the fifteenth pair of cells of that
\* line, and to the sixth tick before the first latch of the second line;
\* the program then makes opcode fetches, write cycles to
\* screen cells and to ROM, and writes to port 0xfe, each of the write and
\* output cycles rendering up to its own tick.

PairOps == 5

PairBytes == {90}

\* 0x4000 and 0x4001, the first pair of the first line; 0x401c, its
\* fifteenth pair; 0x4100, the first pair of the second line; 0x5800, the
\* attributes of the first cell; and ROM.
PairAddrs == {16384, 16385, 16412, 16640, 22528, 0}

PairColours == {7}

\* The render tick at which the beam latches pair p (0 .. 15) of display
\* line y, and the tick at which it paints the first two pixels of the pair.
PairLatchTick(mdl, y, p) == (64 + y) * get_ticks_per_line(mdl) + 8 * p

PairPaintTick(mdl, y, p) == PairLatchTick(mdl, y, p) + 4

\* The start ticks, counted from the first contended tick of the frame.
PairOffsets(mdl) ==
    LET base == PairLatchTick(mdl, 0, 0) - get_cont_base(mdl)
    IN  <<base - 6, base + 116, base + get_ticks_per_line(mdl) - 6>>

PairStarts(mdls) ==
    UNION { ContChain(Fresh(mdl, 165, 7, 0), PairOffsets(mdl), 1) :
              mdl \in mdls }

InitPairs == \E m \in PairStarts(Models) : InitM(m, PairOps)

NextPairs ==
    \/ RunEnter
    \/ Step
    \/ OpcodeFetch
    \/ WriteCycle(PairAddrs, PairBytes)
    \/ OutputCycle(BorderPorts, PairColours)
    \/ StepReturn

SpecPairs == InitPairs /\ [][NextPairs]_vars

\* The display lines the beam of SpecPairs gets to.
PairLines == 0 .. 1

\* The two bytes at image offsets off and off + 1 as a latch at render tick l
\* sees them.
SeenPair(off, l) == make16(SeenAt(off, l), SeenAt(off + 1, l))

\* The pattern bytes and the attribute bytes of pair p of display line y as
\* they are at the latch tick of the pair.
PairPattern(y, p) ==
    SeenPair(ram5 * page_size + get_pixel_pattern_offset(64 + y, 48 + 16 * p),
             PairLatchTick(model, y, p))

PairAttrs(y, p) ==
    SeenPair(ram5 * page_size + 6144
                 + get_colour_attrs_offset(64 + y, 48 + 16 * p),
             PairLatchTick(model, y, p))

\* The byte of the chunk buffer with the two pixels the beam paints at tick
\* k (0 .. 7) of pair p of display line y.
PairShown(y, p, k) ==
    screen_chunks[top_border_height + y][border_width \div 8 + 2 * p + k \div 4]
                 [(k % 4) + 1]

\* The same two pixels, made of pattern word pt and attribute word at.
PairPixels(pt, at, k) ==
    LET a == (at \div 2 ^ (8 * (1 - k \div 4))) % 256
        bright == 8 * Bit(a, 6)
        ink == (a % 8) + bright
        paper == ((a \div 8) % 8) + bright
    IN  16 * (IF Bit(pt, 15 - 2 * k) = 1 THEN ink ELSE paper)
           + (IF Bit(pt, 14 - 2 * k) = 1 THEN ink ELSE paper)

\* C33: the pattern bytes and the attribute bytes of every pair of cells
\* are latched four ticks before the beam paints the first pixels of the
\* pair, as the memory is at that tick; the shadow latches take them over
\* at the first pixels; and all sixteen pixels of the pair are painted from
\* them, whatever the next latch reads, whatever is written after the latch
\* tick, and wherever the calls of render_screen_to_tick() end.
C33_PairLatched ==
    \A y \in PairLines, p \in 0 .. 15 :
        LET l == PairLatchTick(model, y, p)
            f == PairPaintTick(model, y, p)
        IN  /\ (render_tick > l /\ render_tick <= l + 8) =>
                  /\ latched_pixel_pattern = PairPattern(y, p)
                  /\ latched_colour_attrs = PairAttrs(y, p)
            /\ (render_tick > f /\ render_tick <= f + 8) =>
                  /\ latched_pixel_pattern2 = PairPattern(y, p)
                  /\ latched_colour_attrs2 = PairAttrs(y, p)
            /\ \A k \in 0 .. 7 :
                  render_tick > f + k =>
                      PairShown(y, p, k) =
                          PairPixels(PairPattern(y, p), PairAttrs(y, p), k)

\* The first pair of the first line is painted: its second cell was written
\* before the latch tick of the pair and its first cell at or after it, and
\* the pixels of the second cell, painted after the latch of the next pair,
\* show the byte written and not the bytes of the next pair.
C33_Witness ==
    LET l == PairLatchTick(model, 0, 0)
    IN  /\ render_tick > l + 11
        /\ \E i, j \in DOMAIN hist :
              /\ hist[i].op = "write" /\ hist[j].op = "write"
              /\ hist[i].tick < l /\ hist[j].tick >= l
              /\ hist[i].addr = 16385 /\ hist[j].addr \in {16384, 22528}
              /\ hist[i].new # hist[i].old
              /\ hist[j].new # hist[j].old
        /\ PairShown(0, 0, 4) = PairPixels(90, 165 * 257, 4)
        /\ PairShown(0, 0, 4) # PairPixels(PairPattern(0, 1), PairAttrs(0, 1), 4)
        /\ PairShown(0, 0, 0) = PairPixels(165 * 257, 165 * 257, 0)

\* ------------------------------------------------------------------------
\* The lazy renderer against an eager one, on both models.  The beam has
\* been brought by a write cycle to ROM to the seventh tick before the
\* first latch of the last screen line; the program makes opcode fetches, write
\* cycles to the first cell of that line and to ROM, and writes to port
\* 0xfe; run() returns on the fetch budget and the host calls
\* render_screen().

EagerOps == 5

EagerFetches == 2

EagerBytes == {90}

EagerColours == {2}

\* 0x57e0, the pattern of the first cell of display line 191; 0x5ae0, its
\* attributes; and ROM.
EagerAddrs == {22496, 23264, 0}

EagerOffsets(mdl) ==
    << PairLatchTick(mdl, screen_height - 1, 0) - get_cont_base(mdl) - 7 >>

EagerStarts(mdls) ==
    UNION { { [s EXCEPT !.fetches_to_stop = EagerFetches,
                        !.watch.fts_n = EagerFetches, !.watch.m1_count = 0,
                        !.watch.eager = <<[s EXCEPT !.watch = NoWatch]>>] :
                s \in ContChain(Fresh(mdl, 165, 7, 0), EagerOffsets(mdl), 1) }
            : mdl \in mdls }

InitEager == \E m \in EagerStarts(Models) : InitM(m, EagerOps)

NextEager ==
    \/ RunEnter
    \/ Step
    \/ OpcodeFetch
    \/ WriteCycle(EagerAddrs, EagerBytes)
    \/ OutputCycle(BorderPorts, EagerColours)
    \/ StepReturn
    \/ RunReturn
    \/ HostRenderScreen

SpecEager == InitEager /\ [][NextEager]_vars

\* The reference renderer: it emits every tick up to tick T with the memory
\* and the border colour it has,
eager_emit(r, T) ==
    IF r.render_tick < T THEN render_ticks(r, r, T - r.render_tick) ELSE r

\* and takes the write or the change of the border colour that began at
\* tick t when it has emitted the ticks up to t.
RECURSIVE eager_render(_, _, _)
eager_render(r, evs, i) ==
    IF i > Len(evs) THEN eager_emit(r, get_ticks_per_frame(r.model))
    ELSE LET ev == evs[i]
             r1 == eager_emit(r, ev.tick + 1)
         IN  eager_render(
                 IF ev.op = "write"
                 THEN [r1 EXCEPT !.bytes.cells =
                          [o \in DOMAIN r1.bytes.cells \cup {ev.off} |->
                              IF o = ev.off THEN ev.new ELSE r1.bytes.cells[o]]]
                 ELSE [r1 EXCEPT !.border_colour = ev.new],
                 evs, i + 1)

\* C34: after render_screen() the chunk buffer is the one of a renderer that
\* emits every tick as it elapses and applies every write cycle and every
\* write to port 0xfe at the tick after the one the cycle began at.
C34_LazyIsEager ==
    (FrameRendered /\ watch.eager # <<>>) =>
        screen_chunks = eager_render(watch.eager[1], hist, 1).screen_chunks

\* A frame with a write to the first cell of the last screen line begun
\* before the latch of the cell, one begun after it, and a change of the
\* border colour, rendered to its end.
C34_Witness ==
    /\ FrameRendered
    /\ watch.eager # <<>>
    /\ \E i, j, k \in DOMAIN hist :
          /\ hist[i].op = "write" /\ hist[i].addr \in {22496, 23264}
          /\ hist[i].tick < PairLatchTick(model, screen_height - 1, 0)
          /\ hist[j].op = "write" /\ hist[j].addr \in {22496, 23264}
          /\ hist[j].tick >= PairLatchTick(model, screen_height - 1, 0)
          /\ hist[k].op = "border"
    /\ PairShown(screen_height - 1, 0, 0) # PairPixels(165 * 257, 165 * 257, 0)
    /\ \E b \in BorderPairs : ShownPair(b) = 17 * 2
    /\ \E b \in BorderPairs : ShownPair(b) = 17 * 7

\* ------------------------------------------------------------------------
\* What one iteration of the loop of render_screen_to_tick touches.

\* The iteration with the latching area one pair of cells wider.
render_access_wide_latch(mdl, rt) ==
    LET ticks_per_line == get_ticks_per_line(mdl)
        frame_tick == rt + border_width \div 2 - 8 \div 2
        frame_line == frame_tick \div ticks_per_line
        pixel_in_line == (frame_tick % ticks_per_line) * 2
    IN  [frame_line |-> frame_line, pixel_in_line |-> pixel_in_line,
         latch |-> /\ frame_line >= 64
                   /\ frame_line < 64 + screen_height
                   /\ pixel_in_line >= border_width - 8
                   /\ pixel_in_line < border_width + screen_width
                   /\ (rt - frame_line * ticks_per_line) % 8 = 0,
         paint |-> \/ /\ frame_line >= 64
                      /\ frame_line < 64 + screen_height
                      /\ pixel_in_line >= border_width
                      /\ pixel_in_line < border_width + screen_width
                   \/ /\ frame_line >= 64 - top_border_height
                      /\ frame_line < 64 + screen_height + bottom_border_height
                      /\ pixel_in_line < frame_width,
         screen_line |-> frame_line - (64 - top_border_height),
         chunk_index |-> pixel_in_line \div pixels_per_frame_chunk]

\* The iteration at render tick rt: the line and the pixel the beam is at,
\* whether the iteration latches the screen bytes (and so calls the offset
\* helpers with frame_line and pixel_in_line + 8 and reads the bytes at the
\* offsets they return and the next ones), whether it writes to the chunk
\* buffer, and the indices of the chunk it writes to.
render_access(mdl, rt) ==
    LET ticks_per_line == get_ticks_per_line(mdl)
        frame_tick == rt + border_width \div 2 - 8 \div 2
        frame_line == frame_tick \div ticks_per_line
        pixel_in_line == (frame_tick % ticks_per_line) * 2
    IN  [frame_line |-> frame_line, pixel_in_line |-> pixel_in_line,
         latch |-> /\ frame_line >= 64
                   /\ frame_line < 64 + screen_height
                   /\ pixel_in_line >= border_width - 8
                   /\ pixel_in_line < border_width + screen_width - 8
                   /\ (rt - frame_line * ticks_per_line) % 8 = 0,
         paint |-> \/ /\ frame_line >= 64
                      /\ frame_line < 64 + screen_height
                      /\ pixel_in_line >= border_width
                      /\ pixel_in_line < border_width + screen_width
                   \/ /\ frame_line >= 64 - top_border_height
                      /\ frame_line < 64 + screen_height + bottom_border_height
                      /\ pixel_in_line < frame_width,
         screen_line |-> frame_line - (64 - top_border_height),
         chunk_index |-> pixel_in_line \div pixels_per_frame_chunk]

\* The specification: the beam has been brought by write cycles to ROM to
\* the ninth and to the fifth tick before the end of the frame; the program makes opcode
\* fetches, write cycles to the screen and writes to port 0xfe in the
\* instructions that run over the end of the frame.

BoundOps == 5

BoundAddrs == {16384, 23295}

BoundBytes == {90}

BoundColours == {2}

BoundOffsets(mdl) ==
    << get_ticks_per_frame(mdl) - get_cont_base(mdl) - 9,
       get_ticks_per_frame(mdl) - get_cont_base(mdl) - 5 >>

BoundStarts(mdls) ==
    UNION { ContChain(Fresh(mdl, 165, 7, 0), BoundOffsets(mdl), 1) :
              mdl \in mdls }

InitBounds == \E m \in BoundStarts(Models) : InitM(m, BoundOps)

NextBounds ==
    \/ RunEnter
    \/ Step
    \/ OpcodeFetch
    \/ WriteCycle(BoundAddrs, BoundBytes)
    \/ OutputCycle(BorderPorts, BoundColours)
    \/ StepReturn

SpecBounds == InitBounds /\ [][NextBounds]_vars

\* The iteration keeps to the chunk buffer, to the assertions of the offset
\* helpers and to the 0x1b00 bytes of the screen.
AccessInBounds(a) ==
    /\ a.paint =>
          /\ a.screen_line >= 0 /\ a.screen_line < frame_height
          /\ a.chunk_index >= 0 /\ a.chunk_index < chunks_per_frame_line
    /\ a.latch =>
          /\ a.frame_line >= 64 /\ a.frame_line < 64 + screen_height
          /\ a.pixel_in_line + 8 >= border_width
          /\ a.pixel_in_line + 8 < border_width + screen_width
          /\ get_pixel_pattern_offset(a.frame_line, a.pixel_in_line + 8) >= 0
          /\ get_pixel_pattern_offset(a.frame_line, a.pixel_in_line + 8) + 1
                < 6912
          /\ 6144 + get_colour_attrs_offset(a.frame_line, a.pixel_in_line + 8)
                >= 0
          /\ 6144 + get_colour_attrs_offset(a.frame_line, a.pixel_in_line + 8)
                + 1 < 6912

\* The lines of the chunk buffer that have been written to lie in the
\* buffer, and so do the chunks of each.
BufferInBounds ==
    /\ DOMAIN screen_chunks = 0 .. frame_height - 1
    /\ \A l \in DOMAIN screen_chunks :
          screen_chunks[l] # NoLine =>
              DOMAIN screen_chunks[l] = 0 .. chunks_per_frame_line - 1

\* C35: every iteration of render_screen_to_tick, from render tick 0 to any
\* end tick, also one past the end of the frame, on both models, writes
\* within the 280 lines of 44 chunks of the buffer, calls the offset helpers
\* with a frame line in 64 .. 255 and a pixel in 48 .. 303, and reads the
\* screen below offset 0x1b00.
C35_RenderInBounds ==
    /\ \A rt \in 0 .. render_tick - 1 : AccessInBounds(render_access(model, rt))
    /\ [][/\ \A rt \in render_tick .. render_tick' - 1 :
                AccessInBounds(render_access(model, rt))
          /\ \A l \in 0 .. frame_height - 1 :
                screen_chunks'[l] # screen_chunks[l] =>
                    \E rt \in render_tick .. render_tick' - 1 :
                        /\ render_access(model, rt).paint
                        /\ render_access(model, rt).screen_line = l
          /\ BufferInBounds']_vars

\* The beam has been moved past the end of the frame by a write cycle to the
\* screen.
C35_Witness ==
    /\ render_tick > TicksPerFrame
    /\ Len(hist) > 0
    /\ hist[Len(hist)].op = "write"
    /\ hist[Len(hist)].tick = render_tick - 1
    /\ BufferInBounds

\* ------------------------------------------------------------------------
\* The frame tick by tick, on both models.  The beam has been brought by
\* write cycles to ROM to the last hidden ticks before the first visible
\* line, to the left border of the first screen line, to the end of the
\* screen area of that line and to the end of its right border; the host
\* then calls render_screen_to_tick() with the next tick, time after time,
\* and at last with the tick the frame ends at.

TickOps == 21

\* The render ticks of the starts.
TickStarts(mdl) ==
    LET tpl == get_ticks_per_line(mdl)
    IN  << (64 - top_border_height) * tpl - 23, 64 * tpl - 4,
           64 * tpl + 128, 64 * tpl + 150 >>

TickOffsets(mdl) ==
    [i \in 1 .. 4 |-> TickStarts(mdl)[i] + 2 - get_cont_base(mdl)]

BeamStartsAt(mdls) ==
    UNION { ContChain(Fresh(mdl, 165, 7, 0), TickOffsets(mdl), 1) :
              mdl \in mdls }

InitTicks == \E m \in BeamStartsAt(Models) : InitM(m, TickOps)

NextTicks ==
    \/ budget > 1 /\ RenderTo({render_tick + 1 - get_cont_base(model)})
    \/ budget = 1 /\ RenderTo({TicksPerFrame - get_cont_base(model)})

SpecTicks == InitTicks /\ [][NextTicks]_vars

\* Byte k (1 .. 4) of chunk c of line l of a chunk buffer; -1 for a byte
\* no tick has assigned.
ChunkByte(chunks, l, c, k) ==
    IF chunks[l] = NoLine THEN -1 ELSE chunks[l][c][k]

\* The bytes of the chunk buffer, one for two pixels.
PixelBytes ==
    (0 .. frame_height - 1) \X (0 .. chunks_per_frame_line - 1) \X (1 .. 4)

\* The render ticks of a frame at which the beam paints, and the byte each
\* of them assigns.
PaintTicks(mdl) ==
    {rt \in 0 .. get_ticks_per_frame(mdl) - 1 : render_access(mdl, rt).paint}

PaintedByte(mdl, rt) ==
    LET a == render_access(mdl, rt)
    IN  <<a.screen_line, a.chunk_index,
          (a.pixel_in_line % pixels_per_frame_chunk) \div 2 + 1>>

\* Every byte of the buffer is assigned at one tick of the frame, and at
\* one only.
PaintedOnce(mdl) ==
    /\ Cardinality(PaintTicks(mdl)) = Cardinality(PixelBytes)
    /\ {PaintedByte(mdl, rt) : rt \in PaintTicks(mdl)} = PixelBytes

\* C36: a frame rendered from tick 0 to ticks_per_frame, in whatever calls,
\* has every one of its 280 x 352 pixels assigned, each at one tick; a tick
\* in the visible area assigns the two pixels of one byte of one chunk and
\* leaves the rest of the buffer as it was, and a tick outside the visible
\* area leaves the buffer as it was.
C36_EveryPixelOnce ==
    /\ [](render_tick >= TicksPerFrame =>
            /\ PaintedOnce(model)
            /\ \A x \in PixelBytes :
                  ChunkByte(screen_chunks, x[1], x[2], x[3]) \in 0 .. 255)
    /\ [][render_tick' = render_tick + 1 =>
            LET a == render_access(model, render_tick)
            IN  IF a.paint
                THEN \A x \in PixelBytes :
                        IF x = PaintedByte(model, render_tick)
                        THEN ChunkByte(screen_chunks', x[1], x[2], x[3])
                                 \in 0 .. 255
                        ELSE ChunkByte(screen_chunks', x[1], x[2], x[3])
                                 = ChunkByte(screen_chunks, x[1], x[2], x[3])
                ELSE screen_chunks' = screen_chunks]_vars

\* A frame rendered to its end in more than twenty calls, on the 128K.
C36_Witness ==
    /\ model = "spectrum_128"
    /\ render_tick = TicksPerFrame
    /\ Len(watch.renders) = TickOps
    /\ ChunkByte(screen_chunks, 0, 0, 1) = 17 * 7
    /\ ChunkByte(screen_chunks, frame_height - 1, chunks_per_frame_line - 1, 4)
          = 17 * 7

\* ------------------------------------------------------------------------
\* The termination of run(), on both models.  The host has installed a tick
\* near the end of a frame, or a tick at the start of a frame or past its
\* end together with a tick budget or a fetch budget; the program makes
\* opcode fetches, read cycles of contended memory and input cycles, which
\* the host's callback may refuse.  The budget of callbacks is more than the
\* frames of these behaviours have room for, so that it never runs out
\* within a run(); the decoder and the loop of run() go on whenever they
\* can, which is the fairness of SpecLive.

LiveOps == 24

\* The ticks before the end of the frame of the late starts.
LiveTail == 12

LiveTicks == {10}

LiveFetches == {2}

LiveStarts ==
    { [Fresh(mdl, 0, 7, t) EXCEPT
          !.ticks_to_stop = n, !.watch.tts_n = n,
          !.fetches_to_stop = f, !.watch.fts_n = f] :
        mdl \in Models,
        t \in {1, get_ticks_per_frame("spectrum_48") - LiveTail,
               get_ticks_per_frame("spectrum_128") - LiveTail,
               get_ticks_per_frame("spectrum_128") + 3},
        n \in {0} \cup LiveTicks, f \in {0} \cup LiveFetches }

\* The starts from which run() comes to its end within the budget.
InitLive ==
    \E m \in LiveStarts :
        /\ \/ m.ticks_to_stop > 0
           \/ m.fetches_to_stop > 0
           \/ /\ m.ticks_since_int < get_ticks_per_frame(m.model)
              /\ m.ticks_since_int >= get_ticks_per_frame(m.model) - LiveTail
        /\ InitM(m, LiveOps)

\* What the loop of run() and the decoder do.
RunSteps ==
    \/ HandleActiveInt
    \/ IntReturn
    \/ Step
    \/ OpcodeFetch
    \/ ReadCycle(ScreenAddrs)
    \/ InputCycle(BorderPorts)
    \/ StepReturn
    \/ RunReturn

\* The host calls run() once.
NextLive ==
    \/ ret = NoRet /\ RunEnter
    \/ RunSteps

SpecLive == InitLive /\ [][NextLive]_vars /\ WF_vars(RunSteps)

\* The events other than the end of the frame.
LatchedEvents ==
    {"machine_stopped", "ticks_limit_hit", "fetches_limit_hit",
     "breakpoint_hit"}

\* C37: with every instruction taking at least one tick, a run() that has
\* been entered returns, and the mask it returns is not empty: it has
\* end_of_frame or an event latched during the run.
C37_RunTerminates ==
    /\ (ctl # "idle") ~> (ctl = "idle")
    /\ [][ctl = "loop" /\ ctl' = "idle" =>
            /\ ret' = events'
            /\ ret' # no_events
            /\ "end_of_frame" \in ret' \/ ret' \cap LatchedEvents # {}
            /\ "end_of_frame" \in ret' <=>
                   ticks_since_int >= TicksPerFrame]_vars
    /\ [][ctl = "loop" /\ ctl' = "step" =>
            ticks_since_int < TicksPerFrame /\ events = no_events]_vars
    /\ [](ctl # "idle" => budget > 0)

\* A run() has returned end_of_frame alone at the very tick the frame ends
\* at.
C37_Witness ==
    /\ ctl = "idle"
    /\ ret = {"end_of_frame"}
    /\ ticks_since_int = TicksPerFrame

\* ------------------------------------------------------------------------
\* The events between two run() calls, on both models.  The host has
\* installed a tick in the middle of a frame and a fetch budget of one; it
\* calls run(), stop() and set_ticks_to_stop(), in whatever order; the
\* program makes opcode fetches, read cycles and input cycles, which the
\* host's callback may refuse.

EventOps == 6

EventTicks == {6}

EventStarts ==
    { [Fresh(mdl, 0, 7, 100) EXCEPT !.fetches_to_stop = 1, !.watch.fts_n = 1] :
        mdl \in Models }

InitEvents == \E m \in EventStarts : InitM(m, EventOps)

\* stop(), called by the host while no run() is in progress.
HostStop == Host([stop(M) EXCEPT !.watch.idle_stops = @ + 1])

NextEvents ==
    \/ RunEnter
    \/ Step
    \/ OpcodeFetch
    \/ ReadCycle(ScreenAddrs)
    \/ InputCycle(BorderPorts)
    \/ StepReturn
    \/ RunReturn
    \/ HostStop
    \/ HostSetTicksToStop(EventTicks)

SpecEvents == InitEvents /\ [][NextEvents]_vars

IsHostStop == watch'.idle_stops = watch.idle_stops + 1

\* run() clears the events on entry; the run() that follows a stop() made
\* by the host begins as it would have begun without the stop(); and what
\* run() returns are the events latched since its entry, machine_stopped
\* among them only when stop() was called during the run.
RunForgetsEvents ==
    /\ [][ctl = "idle" /\ ctl' = "loop" =>
            /\ events' = no_events
            /\ run_continues(M') <=> ticks_since_int' < TicksPerFrame]_vars
    /\ [][IsHostStop =>
            [run_enter(M') EXCEPT !.watch = 0] =
                [run_enter(M) EXCEPT !.watch = 0]]_vars
    /\ [][ctl = "loop" /\ ctl' = "idle" =>
            /\ ret' = events'
            /\ "machine_stopped" \in ret' => watch'.stopped]_vars
    /\ [][ctl # "idle" => events \subseteq events']_vars

\* C38 as the specification states it: between two run() calls get_events()
\* returns the mask the last run() returned.
C38_Original ==
    /\ RunForgetsEvents
    /\ [](ctl = "idle" /\ ret # NoRet => events = ret)

\* C38, as the code has it: run() clears the events on entry, so that an
\* event latched by the host's stop() between two run() calls is not in the
\* mask of the next run() and does not end it early, and run() returns only
\* what was latched during it; between two run() calls get_events() returns
\* the mask of the last run() with machine_stopped added by every stop()
\* the host has called since.
C38_EventsCleared ==
    /\ RunForgetsEvents
    /\ [][ctl = "idle" /\ ctl' = "idle" =>
            events' = IF IsHostStop THEN events \cup {"machine_stopped"}
                      ELSE events]_vars
    /\ [](ctl = "idle" /\ ret # NoRet =>
            /\ ret \subseteq events
            /\ events \subseteq ret \cup {"machine_stopped"}
            /\ events # ret => watch.idle_stops > 0)

\* The host has called stop() after a run() of one fetch, and the run()
\* after it has gone on to the tick budget and returned ticks_limit_hit
\* alone.
C38_Witness ==
    /\ ctl = "idle"
    /\ watch.idle_stops > 0
    /\ watch.m1_count >= 2
    /\ ret = {"ticks_limit_hit"}
    /\ events = ret

\* ------------------------------------------------------------------------
\* handle_contention() by itself, on both models: called at the ticks around
\* the first contended tick of the frame, around the end of the contended
\* part of the first line and the start of the second, and around the last
\* contended tick of the frame, with and without a tick budget that the
\* delay uses up; and called once more right after.

DelayOps == 2

\* Ticks before and after each of the places.
DelaySpan == 10

DelayBudgets == {0, 3}

\* The ticks of the starts, counted from the first contended tick.
DelayPlaces(mdl) ==
    {0, screen_width \div 2, get_ticks_per_line(mdl),
     (screen_height - 1) * get_ticks_per_line(mdl) + screen_width \div 2,
     screen_height * get_ticks_per_line(mdl)}

DelayStarts ==
    { [Fresh(mdl, 0, 7, get_cont_base(mdl) + p + d) EXCEPT
          !.ticks_to_stop = n, !.watch.tts_n = n] :
        mdl \in Models, p \in DelayPlaces("spectrum_48") \cup
                              DelayPlaces("spectrum_128"),
        d \in (0 - DelaySpan) .. DelaySpan, n \in DelayBudgets }

InitDelay == \E m \in DelayStarts : InitM(m, DelayOps)

\* A call of handle_contention().
HandleContention ==
    /\ budget > 0
    /\ SetM([handle_contention(M) EXCEPT
                !.watch.access = <<"contend", 0, ticks_since_int>>])
    /\ budget' = budget - 1
    /\ UNCHANGED <<ctl, cycles, ret>>

NextDelay == HandleContention

SpecDelay == InitDelay /\ [][NextDelay]_vars

\* The tick counted from the start of the contended part of its line.
TickInLine(t) == (t - get_cont_base(model)) % get_ticks_per_line(model)

\* Tick t lies in the contended part of a screen line.
InContendedPart(t) ==
    /\ t >= get_cont_base(model)
    /\ t < get_cont_base(model) + screen_height * get_ticks_per_line(model)
    /\ TickInLine(t) < screen_width \div 2

\* C39: handle_contention() adds from 0 to 6 ticks; called in the contended
\* part of a line it leaves the tick counter at a sixth or seventh tick of
\* an ULA cycle of eight, still within the contended part of that line, and
\* elsewhere it adds nothing; a second call right after it changes nothing.
C39_ContentionIdempotent ==
    [][/\ ticks_since_int' - ticks_since_int \in 0 .. 6
       /\ InContendedPart(ticks_since_int) =>
             /\ TickInLine(ticks_since_int') % 8 \in {6, 7}
             /\ TickInLine(ticks_since_int') < screen_width \div 2
             /\ TickInLine(ticks_since_int') >= TickInLine(ticks_since_int)
             /\ InContendedPart(ticks_since_int')
       /\ ~InContendedPart(ticks_since_int) =>
             ticks_since_int' = ticks_since_int
       /\ handle_contention(M').ticks_since_int = ticks_since_int'
       /\ [handle_contention(M') EXCEPT !.watch = 0] =
              [M' EXCEPT !.watch = 0]]_vars

\* Two calls on a 128K machine at the first tick of the contended part of
\* the second screen line: the first added six ticks and used up the tick
\* budget, and the second added none.
C39_Witness ==
    /\ model = "spectrum_128"
    /\ budget = 0
    /\ watch.access = <<"contend", 0, ticks_since_int>>
    /\ ticks_since_int =
          get_cont_base(model) + get_ticks_per_line(model) + 6
    /\ events = {"ticks_limit_hit"}

\* ------------------------------------------------------------------------
\* The offsets of the image as a build returns them.  get_offset() returns
\* fast_u16, the fastest unsigned type of at least 16 bits, which is 16, 32
\* or 64 bits wide by the platform; the offsets run up to 0x27fff.  The
\* definitions above are of the builds in which the type holds them.

FastU16Bits == {16, 32, 64}

\* The conversion of n, below 2^18, to a fast_u16 of w bits.
to_fast_u16(w, n) == IF w = 16 THEN n % 65536 ELSE n

get_offset_fast_u16(w, addr, rom, ram) ==
    to_fast_u16(w, get_offset(addr, rom, ram))

\* memory_image::read and memory_image::write of that build.
read_fast_u16(w, img, addr, rom, ram) ==
    LET off == get_offset_fast_u16(w, addr, rom, ram)
    IN  IF off \in DOMAIN img.cells THEN img.cells[off] ELSE img.fill

write_fast_u16(w, img, addr, n, rom, ram) ==
    LET off == get_offset_fast_u16(w, addr, rom, ram)
    IN  [img EXCEPT !.cells =
            [o \in DOMAIN img.cells \cup {off} |->
                IF o = off THEN n ELSE img.cells[o]]]

\* The specification: a 48K machine, and a 128K machine with every
\* selection of a ROM page and a RAM page, in a build of each width; the
\* program writes to the three RAM windows.

OffsetOps == 2

\* 0x4000, 0x5aff, 0x8000, 0xc000, 0xdaff and 0xffff.
OffsetAddrs == {16384, 23295, 32768, 49152, 56063, 65535}

\* The same with 0x0000 and 0x3fff, for the reads.
OffsetReads == OffsetAddrs \cup {0, 16383}

OffsetVals == {165}

OffsetStarts ==
    { [Fresh("spectrum_48", 0, 7, 0) EXCEPT !.watch.fast_u16 = w] :
        w \in FastU16Bits }
    \cup
    { [Fresh("spectrum_128", 0, 7, 0) EXCEPT
          !.rom_page = get_rom_page(r), !.ram_page = get_ram_page(p),
          !.watch.fast_u16 = w] :
        r \in 0 .. 1, p \in 0 .. 7, w \in FastU16Bits }

InitOffsets == \E m \in OffsetStarts : InitM(m, OffsetOps)

\* on_write() in the build at hand: it passes the writes at 0x4000 and
\* above to the image.
BuildWrite(A, V) ==
    /\ budget > 0
    /\ \E a \in A, n \in V :
          SetM([M EXCEPT
                  !.bytes = IF a >= 16384
                            THEN write_fast_u16(watch.fast_u16, @, a, n,
                                                rom_page, ram_page)
                            ELSE @,
                  !.watch.wrote = <<a, bytes>>,
                  !.watch.poke = <<a, n>>])
    /\ budget' = budget - 1
    /\ UNCHANGED <<ctl, cycles, ret>>

NextOffsets == BuildWrite(OffsetAddrs, OffsetVals)

SpecOffsets == InitOffsets /\ [][NextOffsets]_vars

\* The page that address addr falls into with the pages selected.
PageAt(addr) ==
    IF addr < 16384 THEN rom_page
    ELSE IF addr < 32768 THEN ram5
    ELSE IF addr < 49152 THEN ram2
    ELSE ram_page

\* The offset the address has in the image of ten pages.
PageOffset(addr) == PageAt(addr) * page_size + (addr % page_size)

\* The byte of an image at an offset.
ByteAt(img, off) == IF off \in DOMAIN img.cells THEN img.cells[off] ELSE img.fill

\* The offsets are those of the ten pages, and the last write has stored
\* its byte at the offset of its address, where the read of the address
\* finds it, and has left the rest of the image as it was.
OffsetsExact ==
    /\ \A a \in OffsetReads :
          /\ get_offset_fast_u16(watch.fast_u16, a, rom_page, ram_page)
                = PageOffset(a)
          /\ PageOffset(a) < 10 * page_size
    /\ watch.wrote # <<>> =>
          LET a == watch.wrote[1]
              n == watch.poke[2]
              before == watch.wrote[2]
          IN  /\ ByteAt(bytes, PageOffset(a)) = n
              /\ read_fast_u16(watch.fast_u16, bytes, a, rom_page, ram_page) = n
              /\ \A o \in (DOMAIN bytes.cells \cup DOMAIN before.cells)
                              \ {PageOffset(a)} :
                    ByteAt(bytes, o) = ByteAt(before, o)
              /\ \A b \in OffsetReads :
                    read_fast_u16(watch.fast_u16, bytes, b, rom_page, ram_page)
                        # read_fast_u16(watch.fast_u16, before, b,
                                        rom_page, ram_page)
                    => PageOffset(b) = PageOffset(a)

\* C40: for every address and every selection of the pages the offset in
\* the image is page * 0x4000 + addr mod 0x4000, below 10 * 0x4000 and not
\* cut to 16 bits; a byte written at an address is read back there and no
\* byte of another page changes, the windows at 0x4000 and at 0x8000 being
\* the pages ram5 and ram2 that the window at 0xc000 shows when they are
\* selected.
C40_OffsetsExact == OffsetsExact

\* The same in the builds whose fast_u16 is wider than 16 bits.
OffsetsExactWhenWide == watch.fast_u16 > 16 => OffsetsExact

\* A build of 16 bits: a write at 0xc000 with ram1 selected has changed the
\* byte at 0x4000, of ram5.
OffsetsCutSeen ==
    /\ watch.fast_u16 = 16
    /\ ram_page = ram1
    /\ watch.wrote # <<>>
    /\ watch.wrote[1] = 49152
    /\ ByteAt(watch.wrote[2], ram5 * page_size) = 0
    /\ ByteAt(bytes, ram5 * page_size) = 165

=============================================================================
